---- MODULE Spec2Model ----
(***************************************************************************)
(* A model of the arbitrage scanner: pool normalisation, the pairwise      *)
(* evaluator, the aggregated evaluator with its cost model, the anti-spam  *)
(* deduplicator, the Base-chain fetch circuit breaker and the scan loop.   *)
(*                                                                         *)
(* Numbers.  The program computes with Python floats.  Prices, spreads and *)
(* fees are modelled as exact rationals [n |-> numerator, d |-> denominator]*)
(* kept in lowest terms, so that a comparison in the model is the          *)
(* comparison of the real numbers the floats stand for.  The two irrational*)
(* functions of the cost model (a square root and a power 0.7) are         *)
(* evaluated in fixed point, in millionths.  Clock values are seconds.     *)
(***************************************************************************)
EXTENDS Integers, Sequences, FiniteSets, TLC

VARIABLES
    now,                   \* time.time(), in seconds
    recent_opportunities,  \* main._recent_opportunities: hash -> last sent
    recent_tokens,         \* main._recent_tokens: token -> last sent
    sent_opportunities,    \* history: hash -> time of the last record, never purged
    sent_tokens,           \* history: token -> time of the last record, never purged
    last_call,             \* the last anti-spam call and what it returned
    pair_in,               \* the two raw pools and the token of a pairwise evaluation
    pair_out,              \* what the evaluator returned for (a,b) and for (b,a)
    pc,                    \* main(): where the scan loop stands
    pools_by_token,        \* main(): this cycle's pools, grouped, in dict order
    i, ii, jj,             \* main(): the token and the pair being handled
    opp,                   \* main(): the opportunity handed to the notifier
    error,                 \* the exception the cycle-level handler caught last
    scan_env,                   \* what the scan loop runs in: the clock's steps, the deliveries
    notifier_calls,        \* history: token -> the times of its last two notifier calls
    last_send,             \* history: the last notifier call that returned
    opportunities_history, \* telegram_bot.opportunities_history
    dex_down_until,        \* pool_fetchers._dex_down_until: DEX -> end of its down time
    fb,                    \* fetch_with_backoff: the call in progress
    marked_at,             \* history: DEX -> time its retries were last exhausted
    last_fetch,            \* history: the last call of fetch_with_backoff
    eval_in,               \* compute_spread_and_metrics: the token and the raw pools
    eval_out,              \* compute_spread_and_metrics: what it returned, and why
    pools_cache,           \* pool_fetchers._pools_cache
    cache_timestamp,       \* pool_fetchers._cache_timestamp
    lookups,               \* the calls of fetch_all_pools: where each stands
    fanouts,               \* history: the times at which a fetch of all DEX started
    dex_api,               \* what the API of each Solana DEX answers
    smart_cache,           \* pool_fetchers._smart_cache: key -> data, timestamp, ttl
    smart_puts,            \* history: key -> the last _set_cached_data of the key
    last_get,              \* history: the last _get_cached_data and what it returned
    base_cache,            \* pool_fetchers._base_cache
    base_calls,            \* the calls of fetch_base_pools: where each stands
    call,                  \* a function call: the function and its arguments
    ret                    \* what the call returned

antiVars == <<recent_opportunities, recent_tokens, sent_opportunities, sent_tokens, last_call>>
pairVars == <<pair_in, pair_out>>
scanVars == <<pc, pools_by_token, i, ii, jj, opp, error>>
fetchVars == <<dex_down_until, fb, marked_at, last_fetch>>
evalVars == <<eval_in, eval_out>>
cacheVars == <<pools_cache, cache_timestamp, lookups, fanouts, dex_api>>
notifyVars == <<scan_env, notifier_calls, last_send, opportunities_history>>
smartVars == <<smart_cache, smart_puts, last_get>>
baseVars == <<base_cache, base_calls>>
callVars == <<call, ret>>
vars == <<now, antiVars, pairVars, scanVars, notifyVars, fetchVars, evalVars, smartVars, baseVars, cacheVars, callVars>>

\* _set_cached_data and _get_cached_data never called
SmartIdle ==
    /\ smart_cache = [k \in {} |-> 0]
    /\ smart_puts = [k \in {} |-> 0]
    /\ last_get = [none |-> TRUE]

ScanMaxClock == 4200
ScanElapsed == {2100, 4200}
ScanSolPrices == {[n |-> 1, d |-> 1], [n |-> 2, d |-> 1]}
ScanStaticPrices == {[n |-> 1, d |-> 1], [n |-> 503, d |-> 500], [n |-> 101, d |-> 100]}
ScanShapes == {"ok", "null_id", "null_dex", "kyber"}

\* the notifier never called; the scan loop under a clock that moves in long
\* steps, with a Telegram API that accepts every message, and no record kept
\* of the notifier calls
NotifyIdle ==
    /\ scan_env = [elapsed |-> ScanElapsed, max_clock |-> ScanMaxClock, deliveries |-> {TRUE},
                   sol_prices |-> ScanSolPrices, static_prices |-> ScanStaticPrices,
                   shapes |-> ScanShapes, observed |-> FALSE]
    /\ notifier_calls = [k \in {} |-> 0]
    /\ last_send = [none |-> TRUE]
    /\ opportunities_history = <<>>

\* pool_fetchers.py 61: time 0.0 of time.time() on the clock of the model,
\* which starts with the process
EPOCH == -1000000

\* pool_fetchers.py 61: the Base cache as the module is imported
EmptyBaseCache == [timestamp |-> EPOCH, data |-> <<>>, fetch_started |-> EPOCH]

\* fetch_base_pools never called; the timestamp of the empty cache is the epoch
BaseIdle ==
    /\ base_cache = EmptyBaseCache
    /\ base_calls = <<>>

\* no function called
CallIdle ==
    /\ call = [none |-> TRUE]
    /\ ret = [none |-> TRUE]

\* fetch_all_pools never called
CacheIdle ==
    /\ pools_cache = [none |-> TRUE]
    /\ cache_timestamp = 0
    /\ lookups = <<>>
    /\ fanouts = <<>>
    /\ dex_api = [none |-> TRUE]

\* no aggregated evaluation asked for
EvalIdle ==
    /\ eval_in = [none |-> TRUE]
    /\ eval_out = [none |-> TRUE]

\* no Base fetch made
FetchIdle ==
    /\ dex_down_until = [k \in {} |-> 0]
    /\ fb = [pc |-> "idle", calls |-> 0]
    /\ marked_at = [k \in {} |-> 0]
    /\ last_fetch = [none |-> TRUE]

\* the scan loop not started
ScanIdle ==
    /\ pc = "idle"
    /\ pools_by_token = <<>>
    /\ i = 0 /\ ii = 0 /\ jj = 0
    /\ opp = [none |-> TRUE]
    /\ error = [none |-> TRUE]

(***************************************************************************)
(* Python's None, for a value that is a record when present.               *)
(***************************************************************************)
None == [none |-> TRUE]

\* a Python dict: a function with a finite domain
EmptyMap == [k \in {} |-> 0]

Put(m, k, v) == [x \in DOMAIN m \cup {k} |-> IF x = k THEN v ELSE m[x]]

(***************************************************************************)
(* Exact rationals.                                                        *)
(***************************************************************************)
Abs(x) == IF x < 0 THEN -x ELSE x

RECURSIVE GCD(_, _)
GCD(a, b) == IF b = 0 THEN a ELSE GCD(b, a % b)

LCM(a, b) == (a \div GCD(a, b)) * b

Rat(n, d) ==
    LET g == GCD(Abs(n), Abs(d))
        s == IF d < 0 THEN -1 ELSE 1
    IN  [n |-> s * (n \div g), d |-> s * (d \div g)]

Zero == [n |-> 0, d |-> 1]
One == [n |-> 1, d |-> 1]

RSub(x, y) ==
    LET l == LCM(x.d, y.d)
    IN  Rat(x.n * (l \div x.d) - y.n * (l \div y.d), l)

RAdd(x, y) ==
    LET l == LCM(x.d, y.d)
    IN  Rat(x.n * (l \div x.d) + y.n * (l \div y.d), l)

RMul(x, y) ==
    LET a == Rat(x.n, y.d)
        b == Rat(y.n, x.d)
    IN  [n |-> a.n * b.n, d |-> a.d * b.d]

\* x / y, for y # 0
RDiv(x, y) == RMul(x, Rat(y.d, y.n))

RLt(x, y) ==
    LET l == LCM(x.d, y.d)
    IN  x.n * (l \div x.d) < y.n * (l \div y.d)

RLe(x, y) == ~RLt(y, x)

RMin(S) == CHOOSE x \in S : \A y \in S : RLe(x, y)

\* a fee given in basis points, as a fraction
Bps(b) == Rat(b, 10000)

(***************************************************************************)
(* Pools.  A raw pool is what a DEX fetcher returns: price is the price of *)
(* token_a in units of token_b, or None.  Pool ids are numbered; their     *)
(* order stands for the lexicographic order of the id strings.             *)
(***************************************************************************)
SOL_MINT == "SOL"
TOKEN == "TOK"
TOKEN2 == "TOK2"

RawPool(id, dex, ta, tb, price, fee, liq) ==
    [pool_id |-> id, dex |-> dex, token_a |-> ta, token_b |-> tb, price |-> price,
     fee_bps |-> fee, fee_pct |-> Bps(fee), liquidity_usd |-> liq]

\* a normalisation that quotes the pool's price on both sides
NormalizeSamePrice(pool, token_mint, base_mint) ==
    IF pool.price = None \/ pool.token_a = "" \/ pool.token_b = "" THEN None
    ELSE IF {pool.token_a, pool.token_b} # {token_mint, base_mint} THEN None
    ELSE IF ~RLt(Zero, pool.price) THEN None
    ELSE [pool_id |-> pool.pool_id, dex |-> pool.dex,
          buy_price |-> pool.price, sell_price |-> pool.price,
          fee_pct |-> pool.fee_pct, fee_bps |-> pool.fee_bps,
          liquidity_usd |-> pool.liquidity_usd]

\* a normalisation that reads both orientations as token/base
NormalizeOneOrientation(pool, token_mint, base_mint) ==
    IF pool.price = None \/ pool.token_a = "" \/ pool.token_b = "" THEN None
    ELSE IF pool.price.n = 0 THEN None
    ELSE IF {pool.token_a, pool.token_b} # {token_mint, base_mint} THEN None
    ELSE IF ~RLt(Zero, pool.price) THEN None
    ELSE [pool_id |-> pool.pool_id, dex |-> pool.dex,
          buy_price |-> RDiv(One, pool.price), sell_price |-> pool.price,
          fee_pct |-> pool.fee_pct, fee_bps |-> pool.fee_bps,
          liquidity_usd |-> pool.liquidity_usd]

\* pool_prices.normalize_price_for_token
normalize_price_for_token(pool, token_mint, base_mint) ==
    IF pool.price = None \/ pool.token_a = "" \/ pool.token_b = "" THEN None
    ELSE IF pool.price.n = 0 THEN None
    ELSE LET case1 == pool.token_a = token_mint /\ pool.token_b = base_mint
             case2 == pool.token_a = base_mint /\ pool.token_b = token_mint
         IN  IF ~case1 /\ ~case2 THEN None
             ELSE LET buy_price == IF case1 THEN RDiv(One, pool.price) ELSE pool.price
                      sell_price == IF case1 THEN pool.price ELSE RDiv(One, pool.price)
                  IN  IF ~RLt(Zero, buy_price) \/ ~RLt(Zero, sell_price) THEN None
                      ELSE [pool_id |-> pool.pool_id, dex |-> pool.dex,
                            buy_price |-> buy_price, sell_price |-> sell_price,
                            fee_pct |-> pool.fee_pct, fee_bps |-> pool.fee_bps,
                            liquidity_usd |-> pool.liquidity_usd]

\* pool_fetchers.fetch_solana_pools, lines 663-667: a normalised pool tagged
\* with its token and chain
Enrich(p, token, chain) ==
    [pool_id |-> p.pool_id, dex |-> p.dex, buy_price |-> p.buy_price,
     sell_price |-> p.sell_price, fee_pct |-> p.fee_pct, fee_bps |-> p.fee_bps,
     liquidity_usd |-> p.liquidity_usd, token |-> token, chain |-> chain]

\* thegraph_fetcher.get_static_pools_for_pair: one price for both legs
StaticPool(id, dex, token, price, fee, liq) ==
    [pool_id |-> id, dex |-> dex, buy_price |-> price, sell_price |-> price,
     fee_pct |-> Bps(fee), fee_bps |-> fee, liquidity_usd |-> liq,
     token |-> token, chain |-> "base"]

(***************************************************************************)
(* The pairwise evaluator, arbitrage.compute_pool_arbitrage.               *)
(***************************************************************************)
\* float(x or 0)
FloatOr0(x) == IF x = None THEN Zero ELSE x

\* lines 874-881: which direction wins
FirstDirectionWins(spread1_net, spread2_net) == RLe(spread2_net, spread1_net)

compute_pool_arbitrage(pool_a, pool_b, token) ==
    LET buy_price_a == FloatOr0(pool_a.buy_price)
        sell_price_a == FloatOr0(pool_a.sell_price)
        buy_price_b == FloatOr0(pool_b.buy_price)
        sell_price_b == FloatOr0(pool_b.sell_price)
    IN  IF ~RLt(Zero, RMin({buy_price_a, sell_price_a, buy_price_b, sell_price_b}))
        THEN None
        ELSE
        LET spread1_brut == RDiv(RSub(sell_price_b, buy_price_a), buy_price_a)
            fee1 == RAdd(pool_a.fee_pct, pool_b.fee_pct)
            spread1_net == RSub(spread1_brut, fee1)
            spread2_brut == RDiv(RSub(sell_price_a, buy_price_b), buy_price_b)
            fee2 == RAdd(pool_b.fee_pct, pool_a.fee_pct)
            spread2_net == RSub(spread2_brut, fee2)
            first == FirstDirectionWins(spread1_net, spread2_net)
            buy_pool == IF first THEN pool_a ELSE pool_b
            sell_pool == IF first THEN pool_b ELSE pool_a
        IN  IF RLe(spread1_net, Zero) /\ RLe(spread2_net, Zero) THEN None
            ELSE [chain |-> IF buy_pool.chain # "" THEN buy_pool.chain
                            ELSE IF sell_pool.chain # "" THEN sell_pool.chain
                            ELSE "solana",
                  token |-> token,
                  buy_dex |-> buy_pool.dex, sell_dex |-> sell_pool.dex,
                  buy_pool_id |-> buy_pool.pool_id, sell_pool_id |-> sell_pool.pool_id,
                  buy_price |-> IF first THEN buy_price_a ELSE buy_price_b,
                  sell_price |-> IF first THEN sell_price_b ELSE sell_price_a,
                  spread_brut |-> IF first THEN spread1_brut ELSE spread2_brut,
                  spread_net |-> IF first THEN spread1_net ELSE spread2_net,
                  total_fees_pct |-> IF first THEN fee1 ELSE fee2]

\* config.MIN_SPREAD_AFTER_FEES, 0.0025
MIN_SPREAD_AFTER_FEES == Rat(25, 10000)

(***************************************************************************)
(* SpecPair: the pairwise evaluator applied to two pools of one token, in  *)
(* both argument orders.  The pools are the ones the scan loop can hand to *)
(* it: Solana pools normalised from a raw pool in either orientation, and  *)
(* static Base pools.                                                      *)
(***************************************************************************)
Pending == [pending |-> TRUE]

PairPrices == {Rat(1, 2), Rat(101, 200), Rat(1, 1), Rat(101, 100), Rat(2, 1)}
PairFees == {25, 30}
PairLiquidity == 200000

PairRawPools(id, dex) ==
    {RawPool(id, dex, o[1], o[2], pr, f, PairLiquidity) :
        o \in {<<TOKEN, SOL_MINT>>, <<SOL_MINT, TOKEN>>}, pr \in PairPrices, f \in PairFees}

\* the pool the scan loop sees for a raw pool of the given source
PairPool(raw, source) ==
    IF source = "static"
    THEN StaticPool(raw.pool_id, raw.dex, TOKEN, raw.price, raw.fee_bps, raw.liquidity_usd)
    ELSE Enrich(normalize_price_for_token(raw, TOKEN, SOL_MINT), TOKEN, "solana")

InitPair ==
    /\ now = 0
    /\ recent_opportunities = EmptyMap
    /\ recent_tokens = EmptyMap
    /\ sent_opportunities = EmptyMap
    /\ sent_tokens = EmptyMap
    /\ last_call = None
    /\ \E a \in PairRawPools(1, "raydium"), b \in PairRawPools(2, "orca"),
          src \in {"solana", "static"} :
            pair_in = [raw_a |-> a, raw_b |-> b, source |-> src]
    /\ pair_out = [ab |-> Pending, ba |-> Pending]
    /\ ScanIdle
    /\ FetchIdle
    /\ EvalIdle
    /\ SmartIdle
    /\ BaseIdle
    /\ NotifyIdle
    /\ CacheIdle
    /\ CallIdle

PairEvalAB ==
    /\ pair_out.ab = Pending
    /\ pair_out' = [pair_out EXCEPT !.ab =
            compute_pool_arbitrage(PairPool(pair_in.raw_a, pair_in.source),
                                   PairPool(pair_in.raw_b, pair_in.source), TOKEN)]
    /\ UNCHANGED <<now, antiVars, pair_in, scanVars, fetchVars, evalVars, smartVars, notifyVars, baseVars, cacheVars, callVars>>

PairEvalBA ==
    /\ pair_out.ba = Pending
    /\ pair_out' = [pair_out EXCEPT !.ba =
            compute_pool_arbitrage(PairPool(pair_in.raw_b, pair_in.source),
                                   PairPool(pair_in.raw_a, pair_in.source), TOKEN)]
    /\ UNCHANGED <<now, antiVars, pair_in, scanVars, fetchVars, evalVars, smartVars, notifyVars, baseVars, cacheVars, callVars>>

NextPair == PairEvalAB \/ PairEvalBA

SpecPair == InitPair /\ [][NextPair]_vars

\* C4: compute_pool_arbitrage(A, B, token) and compute_pool_arbitrage(B, A, token)
\* are both null, or name the same buy pool and the same sell pool with the same
\* spread_net, ties between the two directions included.
C4_DirectionSymmetric ==
    (pair_out.ab # Pending /\ pair_out.ba # Pending) =>
        \/ pair_out.ab = None /\ pair_out.ba = None
        \/ /\ pair_out.ab # None
           /\ pair_out.ba # None
           /\ pair_out.ab.buy_pool_id = pair_out.ba.buy_pool_id
           /\ pair_out.ab.sell_pool_id = pair_out.ba.sell_pool_id
           /\ pair_out.ab.spread_net = pair_out.ba.spread_net

\* the raw price of pool 2 exceeds that of pool 1 by more than the two fees and
\* the minimum spread together, both pools quoting the token in the base
PriceGapClearsCosts ==
    /\ pair_in.source = "solana"
    /\ pair_in.raw_a.token_a = TOKEN
    /\ pair_in.raw_b.token_a = TOKEN
    /\ RLt(RAdd(RAdd(pair_in.raw_a.fee_pct, pair_in.raw_b.fee_pct), MIN_SPREAD_AFTER_FEES),
           RDiv(RSub(pair_in.raw_b.price, pair_in.raw_a.price), pair_in.raw_a.price))

\* C5: two pools of one token, pool 2 priced above pool 1 by more than the sum
\* of the two fees (read here in the way most favourable to the claim: by more
\* than the fees and the minimum spread): the evaluation of (pool 1, pool 2)
\* emits an opportunity that buys on pool 1, sells on pool 2, and whose
\* spread_net = spread_brut - (fee1 + fee2) is above the minimum spread.
C5_HigherPricedPoolIsSellLeg ==
    (PriceGapClearsCosts /\ pair_out.ab # Pending) =>
        /\ pair_out.ab # None
        /\ pair_out.ab.buy_pool_id = pair_in.raw_a.pool_id
        /\ pair_out.ab.sell_pool_id = pair_in.raw_b.pool_id
        /\ pair_out.ab.spread_net =
              RSub(pair_out.ab.spread_brut, RAdd(pair_in.raw_a.fee_pct, pair_in.raw_b.fee_pct))
        /\ RLt(MIN_SPREAD_AFTER_FEES, pair_out.ab.spread_net)

(***************************************************************************)
(* The anti-spam deduplicator of main.py.  The two maps are functions with *)
(* a finite domain.  The MD5 digest of the key is taken to be injective:   *)
(* the hash is the key itself, the token and the two pool ids sorted.      *)
(***************************************************************************)
\* main.OPPORTUNITY_COOLDOWN and main.TOKEN_COOLDOWN, in seconds
OPPORTUNITY_COOLDOWN == 15 * 60
TOKEN_COOLDOWN == 5 * 60
\* record_notification, line 91: entries older than this are dropped
CLEANUP_AGE == 3600

\* a key that keeps the pool ids in the order given
HashInGivenOrder(token, buy_pool_id, sell_pool_id) == <<token, buy_pool_id, sell_pool_id>>

\* main.generate_opportunity_hash: the key "token|id|id" with the two ids
\* sorted; the MD5 digest of the key stands for the key
generate_opportunity_hash(token, buy_pool_id, sell_pool_id) ==
    IF buy_pool_id <= sell_pool_id
    THEN <<token, buy_pool_id, sell_pool_id>>
    ELSE <<token, sell_pool_id, buy_pool_id>>

\* a deduplicator whose cooldowns include their last instant
ShouldSendInclusive(token, opportunity_hash) ==
    /\ ~(/\ opportunity_hash \in DOMAIN recent_opportunities
          /\ now - recent_opportunities[opportunity_hash] <= OPPORTUNITY_COOLDOWN)
    /\ ~(/\ token \in DOMAIN recent_tokens
          /\ now - recent_tokens[token] <= TOKEN_COOLDOWN)

should_send_notification(token, opportunity_hash) ==
    LET current_time == now
    IN  IF /\ opportunity_hash \in DOMAIN recent_opportunities
           /\ current_time - recent_opportunities[opportunity_hash] < OPPORTUNITY_COOLDOWN
        THEN FALSE
        ELSE IF /\ token \in DOMAIN recent_tokens
                /\ current_time - recent_tokens[token] < TOKEN_COOLDOWN
        THEN FALSE
        ELSE TRUE

\* a purge that drops the entries older than five minutes
CleanedAfterFiveMinutes(m, cleanup_threshold) ==
    [k \in {x \in DOMAIN m : m[x] > cleanup_threshold + (CLEANUP_AGE - TOKEN_COOLDOWN)} |-> m[k]]

\* record_notification, lines 91-99: the dict comprehension that keeps the
\* entries newer than the threshold
Cleaned(m, cleanup_threshold) ==
    [k \in {x \in DOMAIN m : m[x] > cleanup_threshold} |-> m[k]]

\* record_notification: the two maps after the call
RecordedOpportunities(opportunity_hash) ==
    Cleaned(Put(recent_opportunities, opportunity_hash, now), now - CLEANUP_AGE)

RecordedTokens(token) ==
    Cleaned(Put(recent_tokens, token, now), now - CLEANUP_AGE)

\* a record that starts the cooldown of the opportunity only
RecordOpportunityOnly(token, opportunity_hash) ==
    /\ recent_opportunities' = RecordedOpportunities(opportunity_hash)
    /\ recent_tokens' = Cleaned(recent_tokens, now - CLEANUP_AGE)
    /\ sent_opportunities' = Put(sent_opportunities, opportunity_hash, now)
    /\ sent_tokens' = Put(sent_tokens, token, now)

record_notification(token, opportunity_hash) ==
    /\ recent_opportunities' = RecordedOpportunities(opportunity_hash)
    /\ recent_tokens' = RecordedTokens(token)
    /\ sent_opportunities' = Put(sent_opportunities, opportunity_hash, now)
    /\ sent_tokens' = Put(sent_tokens, token, now)

(***************************************************************************)
(* SpecAnti: any sequence of should_send_notification and                  *)
(* record_notification calls under a clock that never runs backwards.      *)
(***************************************************************************)
MaxClock == 3900
AntiElapsed == {300, 600, 2700}
\* (token, buy pool, sell pool) of the opportunities asked about
AntiOpportunities ==
    {<<TOKEN, 1, 2>>, <<TOKEN, 2, 1>>, <<TOKEN, 1, 3>>, <<TOKEN2, 1, 2>>}

InitAnti ==
    /\ now = 0
    /\ recent_opportunities = EmptyMap
    /\ recent_tokens = EmptyMap
    /\ sent_opportunities = EmptyMap
    /\ sent_tokens = EmptyMap
    /\ last_call = None
    /\ pair_in = None
    /\ pair_out = None
    /\ ScanIdle
    /\ FetchIdle
    /\ EvalIdle
    /\ SmartIdle
    /\ BaseIdle
    /\ NotifyIdle
    /\ CacheIdle
    /\ CallIdle

AntiTick ==
    /\ \E d \in AntiElapsed :
          /\ now + d <= MaxClock
          /\ now' = now + d
    /\ UNCHANGED <<antiVars, pairVars, scanVars, fetchVars, evalVars, smartVars, notifyVars, baseVars, cacheVars, callVars>>

AntiShouldSend ==
    /\ \E o \in AntiOpportunities :
          LET token == o[1]
              h == generate_opportunity_hash(token, o[2], o[3])
          IN  last_call' = [op |-> "should_send", token |-> token, hash |-> h, at |-> now,
                            result |-> should_send_notification(token, h)]
    /\ UNCHANGED <<now, recent_opportunities, recent_tokens, sent_opportunities,
                   sent_tokens, pairVars, scanVars, fetchVars, evalVars, smartVars, notifyVars, baseVars, cacheVars, callVars>>

AntiRecord ==
    /\ \E o \in AntiOpportunities :
          LET token == o[1]
              h == generate_opportunity_hash(token, o[2], o[3])
          IN  /\ record_notification(token, h)
              /\ last_call' = [op |-> "record", token |-> token, hash |-> h, at |-> now,
                               result |-> TRUE]
    /\ UNCHANGED <<now, pairVars, scanVars, fetchVars, evalVars, smartVars, notifyVars, baseVars, cacheVars, callVars>>

NextAnti == AntiTick \/ AntiShouldSend \/ AntiRecord

SpecAnti == InitAnti /\ [][NextAnti]_vars

\* the time since the last record of a key, or -1 if it was never recorded
SinceLast(history, k, at) == IF k \in DOMAIN history THEN at - history[k] ELSE -1

\* C2: after record(token, hash) at time t, should_notify(token, hash) is false
\* at every time in [t, t + 900) and is true again only once 900 s have passed;
\* for another hash of the same token it is false in [t, t + 300) and true from
\* t + 300 on unless that hash is in its own 15-minute cooldown.  (t is the time
\* of the last record of the hash, respectively of the token.)
C2_CooldownWindows ==
    (last_call # None /\ last_call.op = "should_send") =>
        LET sinceHash == SinceLast(sent_opportunities, last_call.hash, last_call.at)
            sinceToken == SinceLast(sent_tokens, last_call.token, last_call.at)
            hashBlocked == sinceHash >= 0 /\ sinceHash < 900
            tokenBlocked == sinceToken >= 0 /\ sinceToken < 300
        IN  last_call.result = (~hashBlocked /\ ~tokenBlocked)

\* C2 witness: the same hash asked about again exactly 900 s after its record,
\* and answered true
C2_Witness ==
    /\ last_call # None
    /\ last_call.op = "should_send"
    /\ last_call.result = TRUE
    /\ SinceLast(sent_opportunities, last_call.hash, last_call.at) = 900

\* should_send_notification of a deduplicator whose two maps are never purged:
\* the same tests, made on every record ever taken
ReferenceShouldSend(token, opportunity_hash) ==
    LET current_time == now
    IN  IF /\ opportunity_hash \in DOMAIN sent_opportunities
           /\ current_time - sent_opportunities[opportunity_hash] < OPPORTUNITY_COOLDOWN
        THEN FALSE
        ELSE IF /\ token \in DOMAIN sent_tokens
                /\ current_time - sent_tokens[token] < TOKEN_COOLDOWN
        THEN FALSE
        ELSE TRUE

\* C28: purging is unobservable: after any sequence of record_notification and
\* should_send_notification calls under a clock that never runs backwards,
\* should_send_notification answers, for every token and hash, what it would
\* answer if the two anti-spam maps had never been purged; and the answer of
\* the last call made is that one.
C28_PurgeUnobservable ==
    /\ \A o \in AntiOpportunities :
           LET h == generate_opportunity_hash(o[1], o[2], o[3])
           IN  should_send_notification(o[1], h) = ReferenceShouldSend(o[1], h)
    /\ (last_call # None /\ last_call.op = "should_send" /\ last_call.at = now) =>
           last_call.result = ReferenceShouldSend(last_call.token, last_call.hash)

\* C28 witness: a call about a hash and a token whose records a later
\* record_notification has purged
C28_Witness ==
    /\ last_call # None
    /\ last_call.op = "should_send"
    /\ last_call.at = now
    /\ last_call.hash \in DOMAIN sent_opportunities \ DOMAIN recent_opportunities
    /\ last_call.token \in DOMAIN sent_tokens \ DOMAIN recent_tokens
    /\ DOMAIN recent_tokens # {}
    /\ last_call.result = TRUE

(***************************************************************************)
(* The scan loop, main.main().  One action per stretch of code between two *)
(* awaits.  A cycle fetches the Solana pools of TOKEN and the Base pools   *)
(* of TOKEN2; the Base pools come from the static file, whose entries may  *)
(* hold a JSON null for the pool id or for the DEX name.                   *)
(***************************************************************************)
\* config.CHECK_INTERVAL_SECONDS and the sleep of the handler at main.py:165
CHECK_INTERVAL_SECONDS == 30
ERROR_SLEEP_SECONDS == 5

\* a pool id and a DEX name that are None
NO_ID == 0
NO_DEX == "None"

\* main.py 124-126: the keys of pools_by_token, in insertion order
RECURSIVE TokenOrder(_)
TokenOrder(pools) ==
    IF Len(pools) = 0 THEN <<>>
    ELSE LET t == pools[1].token
         IN  <<t>> \o TokenOrder(SelectSeq(Tail(pools), LAMBDA p : p.token # t))

GroupByToken(all_pools) ==
    LET order == TokenOrder(all_pools)
        PoolsOf(t) == SelectSeq(all_pools, LAMBDA p : p.token = t)
    IN  [k \in 1..Len(order) |-> [token |-> order[k], pools |-> PoolsOf(order[k])]]

\* main.py 147: sorted() of two ids raises TypeError when one is None
HashRaises(buy_pool_id, sell_pool_id) == buy_pool_id = NO_ID \/ sell_pool_id = NO_ID

\* telegram_bot.py 423-424: .title() of a DEX name that is None raises
\* AttributeError, outside the try block of send_opportunity
NotifierRaises(o) == o.buy_dex = NO_DEX \/ o.sell_dex = NO_DEX

\* a loop that ends after its first error
LoopExit == "exited"

\* main.py 163-165 inside `while True`: after the sleep, the next cycle
AfterErrorSleep == "fetch"

MaxSolPools == 2
MaxStaticPools == 3
ScanFeeBps == 25
SolDex == <<"raydium", "orca", "meteora">>
StaticDex == <<"uniswap", "aerodrome", "pancakeswap", "kyberswap">>

SeqsUpTo(S, n) == UNION {[1..k -> S] : k \in 0..n}

\* main.py 27-29: the token lists, validated per chain by token_loader (a
\* Solana address has no "0", a Base address starts with "0x")
TOKENS_SOL == <<TOKEN>>

\* a Base list that holds the Solana token
UnvalidatedBaseTokens == <<TOKEN>>

TOKENS_BASE == <<TOKEN2>>

\* a Base token the lists do not hold, and the Base USDC
OTHER_BASE_TOKEN == "TOK3"
BASE_USDC == "USDCb"

\* pool_fetchers.fetch_base_pools.fetch_kyber_for_token, lines 740-759
KyberPool(id, token, token0_addr, token1_addr, price, fee, liq) ==
    [token |-> IF token = token0_addr \/ token = token1_addr THEN token ELSE token0_addr,
     pool_id |-> id, dex |-> "kyber",
     buy_price |-> IF token = token1_addr THEN price ELSE RDiv(One, price),
     sell_price |-> IF token = token1_addr THEN RDiv(One, price) ELSE price,
     fee_pct |-> Bps(fee), fee_bps |-> fee, liquidity_usd |-> liq, chain |-> "base"]

\* pool_fetchers.fetch_base_pools, level 2: the Kyber pools of the token, the
\* first of them a pool of two other tokens
ScanKyberPools(prices) ==
    [k \in 1..Len(prices) |->
        KyberPool(k, TOKENS_BASE[1], IF k = 1 THEN OTHER_BASE_TOKEN ELSE TOKENS_BASE[1],
                  BASE_USDC, prices[k], ScanFeeBps, PairLiquidity)]

\* pool_fetchers.fetch_solana_pools
ScanSolPools(prices) ==
    [k \in 1..Len(prices) |->
        Enrich(normalize_price_for_token(
                   RawPool(k, SolDex[k], TOKENS_SOL[1], SOL_MINT, prices[k], ScanFeeBps,
                           PairLiquidity),
                   TOKENS_SOL[1], SOL_MINT),
               TOKENS_SOL[1], "solana")]

\* pool_fetchers.fetch_base_pools, level 3: the static pools of the token
ScanStaticPools(prices, shape) ==
    [k \in 1..Len(prices) |->
        StaticPool(IF k = 1 /\ shape = "null_id" THEN NO_ID ELSE k,
                   IF k = 1 /\ shape = "null_dex" THEN NO_DEX ELSE StaticDex[k],
                   TOKENS_BASE[1], prices[k], ScanFeeBps, PairLiquidity)]

InitScan ==
    /\ now = 0
    /\ recent_opportunities = EmptyMap
    /\ recent_tokens = EmptyMap
    /\ sent_opportunities = EmptyMap
    /\ sent_tokens = EmptyMap
    /\ last_call = None
    /\ pair_in = None
    /\ pair_out = None
    /\ pc = "fetch"
    /\ pools_by_token = <<>>
    /\ i = 0 /\ ii = 0 /\ jj = 0
    /\ opp = None
    /\ error = None
    /\ FetchIdle
    /\ EvalIdle
    /\ SmartIdle
    /\ BaseIdle
    /\ NotifyIdle
    /\ CacheIdle
    /\ CallIdle

\* main.py 117-128: both fetches and the grouping
ScanFetch ==
    /\ pc = "fetch"
    /\ \E sol \in SeqsUpTo(scan_env.sol_prices, MaxSolPools),
          static \in SeqsUpTo(scan_env.static_prices, MaxStaticPools),
          shape \in scan_env.shapes :
          LET sol_pools == ScanSolPools(sol)
              base_pools == IF shape = "kyber" THEN ScanKyberPools(static)
                            ELSE ScanStaticPools(static, shape)
          IN  pools_by_token' = GroupByToken(sol_pools \o base_pools)
    /\ pc' = "token"
    /\ i' = 1
    /\ error' = None
    /\ UNCHANGED <<now, antiVars, pairVars, fetchVars, evalVars, smartVars, notifyVars, baseVars, cacheVars, callVars, ii, jj, opp>>

\* main.py 132-141: the head of the loop over the tokens
ScanToken ==
    /\ pc = "token"
    /\ IF i > Len(pools_by_token)
       THEN pc' = "cycle_sleep" /\ UNCHANGED <<i, ii, jj>>
       ELSE IF Len(pools_by_token[i].pools) < 2
       THEN pc' = "token" /\ i' = i + 1 /\ UNCHANGED <<ii, jj>>
       ELSE pc' = "pair" /\ ii' = 1 /\ jj' = 2 /\ UNCHANGED i
    /\ UNCHANGED <<now, antiVars, pairVars, fetchVars, evalVars, smartVars, notifyVars, baseVars, cacheVars, callVars, pools_by_token, opp, error>>

\* main.py 140-141 and 156-161: on to the next pair, or the token is done
Advance ==
    LET n == Len(pools_by_token[i].pools)
    IN  IF jj < n THEN pc' = "pair" /\ jj' = jj + 1 /\ UNCHANGED <<i, ii>>
        ELSE IF ii + 1 < n THEN pc' = "pair" /\ ii' = ii + 1 /\ jj' = ii + 2 /\ UNCHANGED i
        ELSE /\ pc' = IF i < Len(pools_by_token) THEN "token_sleep" ELSE "cycle_sleep"
             /\ ii' = 0 /\ jj' = 0 /\ UNCHANGED i

\* main.py 163-164: the exception reaches the handler of the cycle
Raise(stage) ==
    /\ pc' = "error_sleep"
    /\ error' = [stage |-> stage, token |-> i, pair |-> <<ii, jj>>]
    /\ UNCHANGED <<i, ii, jj, opp>>

\* main.py 142-150: one pair, up to the call of the notifier
ScanPair ==
    /\ pc = "pair"
    /\ LET token == pools_by_token[i].token
           pools == pools_by_token[i].pools
           o == compute_pool_arbitrage(pools[ii], pools[jj], token)
       IN  IF o = None THEN Advance /\ UNCHANGED <<opp, error>>
           ELSE IF HashRaises(o.buy_pool_id, o.sell_pool_id) THEN Raise("hash")
           ELSE IF ~should_send_notification(
                        token, generate_opportunity_hash(token, o.buy_pool_id, o.sell_pool_id))
           THEN Advance /\ UNCHANGED <<opp, error>>
           ELSE pc' = "send" /\ opp' = o /\ UNCHANGED <<i, ii, jj, error>>
    /\ UNCHANGED <<now, antiVars, pairVars, fetchVars, evalVars, smartVars, notifyVars, baseVars, cacheVars, callVars, pools_by_token>>

\* a history that takes no entry
HistoryKeptAsIs(o) == opportunities_history

\* telegram_bot.add_to_history: a copy of the opportunity appended, of which
\* the token is kept here; the last 100 are kept (the clock's bound keeps the
\* history far below 100 entries)
add_to_history(o) ==
    Append(opportunities_history, [token |-> o.token])

\* the times of the last two notifier calls for a token, and of the last two
\* that returned; -1 for none
NeverCalled == [last |-> -1, prev |-> -1, last_ret |-> -1, prev_ret |-> -1]

NotifierCalled(token, returns) ==
    LET c == IF token \in DOMAIN notifier_calls THEN notifier_calls[token] ELSE NeverCalled
    IN  [last |-> now, prev |-> c.last,
         last_ret |-> IF returns THEN now ELSE c.last_ret,
         prev_ret |-> IF returns THEN c.last_ret ELSE c.prev_ret]

\* main.py 151: await send_opportunity(...).  A failed delivery is swallowed
\* inside (telegram_bot.py 616-629); building the message is not guarded.
ScanSend ==
    /\ pc = "send"
    /\ notifier_calls' = IF scan_env.observed
                         THEN Put(notifier_calls, opp.token,
                                  NotifierCalled(opp.token, ~NotifierRaises(opp)))
                         ELSE notifier_calls
    /\ IF NotifierRaises(opp)
       THEN Raise("notify") /\ UNCHANGED <<now, last_send, opportunities_history>>
       ELSE /\ \E d \in {0} \cup scan_env.elapsed :
                  now + d <= scan_env.max_clock /\ now' = now + d
            /\ \E delivered \in scan_env.deliveries :
                  /\ opportunities_history' =
                         IF delivered THEN add_to_history(opp) ELSE opportunities_history
                  /\ last_send' = IF ~scan_env.observed THEN last_send ELSE
                                  [token |-> opp.token,
                                   hash |-> generate_opportunity_hash(
                                                opp.token, opp.buy_pool_id, opp.sell_pool_id),
                                   called_at |-> now, delivered |-> delivered,
                                   history_before |-> Len(opportunities_history),
                                   recorded |-> FALSE]
            /\ pc' = "record"
            /\ UNCHANGED <<i, ii, jj, opp, error>>
    /\ UNCHANGED <<antiVars, pairVars, fetchVars, evalVars, smartVars, scan_env, baseVars, cacheVars, callVars, pools_by_token>>

\* main.py 152: record_notification, then on with the loop
ScanRecord ==
    /\ pc = "record"
    /\ record_notification(
           opp.token, generate_opportunity_hash(opp.token, opp.buy_pool_id, opp.sell_pool_id))
    /\ last_send' = IF scan_env.observed
                    THEN [last_send EXCEPT !.recorded = TRUE] ELSE last_send
    /\ Advance
    /\ opp' = None
    /\ UNCHANGED <<now, last_call, pairVars, fetchVars, evalVars, smartVars, scan_env, notifier_calls,
                   opportunities_history, baseVars, cacheVars, callVars, pools_by_token, error>>

\* main.py 156-157: asyncio.sleep(0.05), below the resolution of the clock
ScanTokenSleep ==
    /\ pc = "token_sleep"
    /\ pc' = "token"
    /\ i' = i + 1
    /\ UNCHANGED <<now, antiVars, pairVars, fetchVars, evalVars, smartVars, notifyVars, baseVars, cacheVars, callVars, pools_by_token, ii, jj, opp, error>>

\* main.py 161: asyncio.sleep(CHECK_INTERVAL_SECONDS) returns no sooner
ScanCycleSleep ==
    /\ pc = "cycle_sleep"
    /\ \E d \in scan_env.elapsed :
          d >= CHECK_INTERVAL_SECONDS /\ now + d <= scan_env.max_clock /\ now' = now + d
    /\ pc' = "fetch"
    /\ pools_by_token' = <<>>
    /\ i' = 0
    /\ UNCHANGED <<antiVars, pairVars, fetchVars, evalVars, smartVars, notifyVars, baseVars, cacheVars, callVars, ii, jj, opp, error>>

\* main.py 163-165: log, asyncio.sleep(5), and around the loop again
ScanErrorSleep ==
    /\ pc = "error_sleep"
    /\ \E d \in scan_env.elapsed :
          d >= ERROR_SLEEP_SECONDS /\ now + d <= scan_env.max_clock /\ now' = now + d
    /\ pc' = AfterErrorSleep
    /\ pools_by_token' = <<>>
    /\ i' = 0 /\ ii' = 0 /\ jj' = 0
    /\ opp' = None
    /\ UNCHANGED <<antiVars, pairVars, fetchVars, evalVars, smartVars, notifyVars, baseVars, cacheVars, callVars, error>>

NextScan ==
    \/ ScanFetch
    \/ ScanToken
    \/ ScanPair
    \/ ScanSend
    \/ ScanRecord
    \/ ScanTokenSleep
    \/ ScanCycleSleep
    \/ ScanErrorSleep

SpecScan == InitScan /\ [][NextScan]_vars

\* asyncio.sleep returns: a sleeping scanner is woken up
SpecScanFair == SpecScan /\ WF_vars(ScanErrorSleep) /\ WF_vars(ScanCycleSleep)

\* C1: every opportunity the scan loop hands to the notifier has a net spread
\* above MIN_SPREAD_AFTER_FEES.
C1_NotifiedClearsMinSpread ==
    pc = "send" => RLt(MIN_SPREAD_AFTER_FEES, opp.spread_net)

\* C3: the buy leg of an alert is the pool with the lowest buy price and its
\* sell leg the pool with the highest sell price, among all the pools the cycle
\* fetched for the token.
C3_AlertHasBestLegs ==
    pc = "send" =>
        LET pools == pools_by_token[i].pools
        IN  \A k \in 1..Len(pools) :
                /\ RLe(opp.buy_price, pools[k].buy_price)
                /\ RLe(pools[k].sell_price, opp.sell_price)

\* pairs of this cycle that the loop has not reached yet
PairsRemain ==
    LET n == Len(pools_by_token[i].pools)
    IN  \/ jj < n
        \/ ii + 1 < n
        \/ \E k \in (i + 1)..Len(pools_by_token) : Len(pools_by_token[k].pools) >= 2

\* C9: an exception raised while one pair is handled (its evaluation, its hash,
\* the building or sending of its notification, its recording) does not keep
\* the remaining pairs and tokens of the cycle from being processed.
C9_PairErrorsStayLocal ==
    (pc = "error_sleep" /\ error.stage \in {"evaluate", "hash", "notify", "record"})
        => ~PairsRemain

\* C14: the two pools of every pair the scan loop evaluates carry the same
\* chain, and so do the two legs of every opportunity it notifies.
C14_LegsOnOneChain ==
    /\ pc = "pair" =>
           pools_by_token[i].pools[ii].chain = pools_by_token[i].pools[jj].chain
    /\ pc = "send" =>
           \A a, b \in 1..Len(pools_by_token[i].pools) :
               (/\ pools_by_token[i].pools[a].pool_id = opp.buy_pool_id
                /\ pools_by_token[i].pools[a].dex = opp.buy_dex
                /\ pools_by_token[i].pools[b].pool_id = opp.sell_pool_id
                /\ pools_by_token[i].pools[b].dex = opp.sell_dex)
               => pools_by_token[i].pools[a].chain = pools_by_token[i].pools[b].chain

\* a cycle that fetched Solana pools and Base pools, a Kyber pool of another
\* token among them, and notifies an opportunity
C14_Witness ==
    /\ pc = "send"
    /\ \E k \in 1..Len(pools_by_token) : pools_by_token[k].pools[1].chain = "solana"
    /\ \E k \in 1..Len(pools_by_token) : pools_by_token[k].token = OTHER_BASE_TOKEN
    /\ opp.chain = "base"

\* C13: when a scan cycle ends, neither anti-spam map holds an entry older than
\* one hour, whether or not the cycle sent a notification.
C13_MapsPurgedEachCycle ==
    pc = "cycle_sleep" =>
        /\ \A k \in DOMAIN recent_opportunities : now - recent_opportunities[k] <= CLEANUP_AGE
        /\ \A k \in DOMAIN recent_tokens : now - recent_tokens[k] <= CLEANUP_AGE

\* the sleep of the error handler ends within the horizon of the model
ErrorSleepFits ==
    \E d \in scan_env.elapsed : d >= ERROR_SLEEP_SECONDS /\ now + d <= scan_env.max_clock

\* C10: the scan loop never ends on an error: the exception is caught, the
\* loop sleeps, and a new cycle starts.
C10_LoopSurvivesErrors ==
    /\ [](pc # "exited")
    /\ (pc = "error_sleep" /\ ErrorSleepFits) ~> (pc = "fetch")

\* C10 witness: a cycle about to start after the handler caught an exception
C10_Witness == pc = "fetch" /\ error # None /\ error.stage = "notify"

(***************************************************************************)
(* SpecNotify: the same scan loop under a clock fine enough to tell the    *)
(* 5-minute cooldown from the 5-second sleep of the error handler, and     *)
(* with a Telegram API that may refuse a message.                          *)
(***************************************************************************)
NotifyMaxClock == 600
NotifyElapsed == {150, 300}
NotifyStaticPrices == {Rat(1, 1), Rat(101, 100)}
NotifyShapes == {"ok", "null_dex"}

InitNotify ==
    /\ now = 0
    /\ recent_opportunities = EmptyMap
    /\ recent_tokens = EmptyMap
    /\ sent_opportunities = EmptyMap
    /\ sent_tokens = EmptyMap
    /\ last_call = None
    /\ pair_in = None
    /\ pair_out = None
    /\ pc = "fetch"
    /\ pools_by_token = <<>>
    /\ i = 0 /\ ii = 0 /\ jj = 0
    /\ opp = None
    /\ error = None
    /\ scan_env = [elapsed |-> NotifyElapsed, max_clock |-> NotifyMaxClock, deliveries |-> BOOLEAN,
                   sol_prices |-> {Rat(1, 1)}, static_prices |-> NotifyStaticPrices,
                   shapes |-> NotifyShapes, observed |-> TRUE]
    /\ notifier_calls = EmptyMap
    /\ last_send = None
    /\ opportunities_history = <<>>
    /\ FetchIdle
    /\ EvalIdle
    /\ SmartIdle
    /\ BaseIdle
    /\ CacheIdle
    /\ CallIdle

SpecNotify == InitNotify /\ [][NextScan]_vars

BetweenPairs == pc \notin {"send", "record"}

MAX_RETRIES == 3
INITIAL_RETRY_DELAY == 1
DEX_DOWN_TTL_SECONDS == 300

RECURSIVE Pow2(_)
Pow2(n) == IF n = 0 THEN 1 ELSE 2 * Pow2(n - 1)

\* dict.get(k, default)
Get(m, k, default) == IF k \in DOMAIN m THEN m[k] ELSE default

\* a breaker that is still closed at the instant the down time ends
IsDownInclusive(dex_name) == Get(dex_down_until, dex_name, 0) >= now

\* pool_fetchers.py 691
IsDown(dex_name) == Get(dex_down_until, dex_name, 0) > now

FetchMaxClock == 650
FetchElapsed == {299, 300}
MaxFetchCalls == 4
FetchDexes == {"kyber", "aerodrome"}
\* HTTP statuses of a response; 0 stands for an exception of the request
FetchStatuses == {200, 429, 500, 0}

InitFetch ==
    /\ now = 0
    /\ recent_opportunities = EmptyMap
    /\ recent_tokens = EmptyMap
    /\ sent_opportunities = EmptyMap
    /\ sent_tokens = EmptyMap
    /\ last_call = None
    /\ pair_in = None
    /\ pair_out = None
    /\ ScanIdle
    /\ FetchIdle
    /\ EvalIdle
    /\ SmartIdle
    /\ BaseIdle
    /\ NotifyIdle
    /\ CacheIdle
    /\ CallIdle

\* lines 691-697: the check of the down time and, if it passes, the first request
FetchCall ==
    /\ fb.pc = "idle"
    /\ fb.calls < MaxFetchCalls
    /\ \E dex_name \in FetchDexes :
          LET since == Get(marked_at, dex_name, -1)
          IN  IF IsDown(dex_name)
              THEN /\ last_fetch' = [dex |-> dex_name, at |-> now, down_since |-> since,
                                     requests |-> 0, result |-> "null"]
                   /\ fb' = [fb EXCEPT !.calls = @ + 1]
              ELSE /\ last_fetch' = [dex |-> dex_name, at |-> now, down_since |-> since,
                                     requests |-> 1, result |-> "pending"]
                   /\ fb' = [pc |-> "request", calls |-> fb.calls + 1, dex |-> dex_name,
                              attempt |-> 0]
    /\ UNCHANGED <<now, antiVars, pairVars, scanVars, evalVars, smartVars, notifyVars, baseVars, cacheVars, callVars, dex_down_until, marked_at>>

\* lines 697-707: the response to the request, or its failure
FetchResponse ==
    /\ fb.pc = "request"
    /\ \E status \in FetchStatuses :
          IF status = 200
          THEN /\ fb' = [pc |-> "idle", calls |-> fb.calls]
               /\ last_fetch' = [last_fetch EXCEPT !.result = "json"]
          ELSE /\ fb' = [pc |-> "sleep", calls |-> fb.calls, dex |-> fb.dex,
                         attempt |-> fb.attempt,
                         wait |-> IF status = 429
                                  THEN INITIAL_RETRY_DELAY * Pow2(fb.attempt) + 1
                                  ELSE INITIAL_RETRY_DELAY * Pow2(fb.attempt)]
               /\ UNCHANGED last_fetch
    /\ UNCHANGED <<now, antiVars, pairVars, scanVars, evalVars, smartVars, notifyVars, baseVars, cacheVars, callVars, dex_down_until, marked_at>>

\* lines 703-710: the sleep ends; the next attempt, or the DEX is marked down
FetchWake ==
    /\ fb.pc = "sleep"
    /\ now + fb.wait <= FetchMaxClock
    /\ now' = now + fb.wait
    /\ IF fb.attempt + 1 < MAX_RETRIES
       THEN /\ fb' = [pc |-> "request", calls |-> fb.calls, dex |-> fb.dex,
                       attempt |-> fb.attempt + 1]
            /\ last_fetch' = [last_fetch EXCEPT !.requests = @ + 1]
            /\ UNCHANGED <<dex_down_until, marked_at>>
       ELSE /\ dex_down_until' = Put(dex_down_until, fb.dex, now' + DEX_DOWN_TTL_SECONDS)
            /\ marked_at' = Put(marked_at, fb.dex, now')
            /\ fb' = [pc |-> "idle", calls |-> fb.calls]
            /\ last_fetch' = [last_fetch EXCEPT !.result = "null"]
    /\ UNCHANGED <<antiVars, pairVars, scanVars, evalVars, smartVars, notifyVars, baseVars, cacheVars, callVars>>

\* time passes between two calls
FetchTick ==
    /\ fb.pc = "idle"
    /\ \E d \in FetchElapsed : now + d <= FetchMaxClock /\ now' = now + d
    /\ UNCHANGED <<antiVars, pairVars, scanVars, fetchVars, evalVars, smartVars, notifyVars, baseVars, cacheVars, callVars>>

NextFetch == FetchCall \/ FetchResponse \/ FetchWake \/ FetchTick

SpecFetch == InitFetch /\ [][NextFetch]_vars

\* C8: once fetch_with_backoff has exhausted MAX_RETRIES for a DEX at time t,
\* the DEX is marked down until t + 300; a call for that DEX at a time in
\* [t, t + 300) returns null without a network request, and a call at or after
\* t + 300 goes to the network again.
C8_DownForFiveMinutes ==
    /\ \A d \in DOMAIN marked_at : dex_down_until[d] = marked_at[d] + 300
    /\ last_fetch # None =>
          IF last_fetch.down_since >= 0 /\ last_fetch.at < last_fetch.down_since + 300
          THEN last_fetch.requests = 0 /\ last_fetch.result = "null"
          ELSE last_fetch.requests >= 1

\* C8 witness: a call made exactly 300 s after the DEX was marked down, and
\* sent to the network
C8_Witness ==
    /\ last_fetch # None
    /\ last_fetch.down_since >= 0
    /\ last_fetch.at = last_fetch.down_since + 300
    /\ last_fetch.requests >= 1

(***************************************************************************)
(* The cost model of arbitrage.py and fees.py.  A cost is an integer       *)
(* number of ten-millionths (0.0005 is 5000); a multiplier is an integer   *)
(* number of tenths, hundredths or thousandths, as said with each.  Every  *)
(* product is rounded down.  A coherence is an integer number of           *)
(* thousandths, the exact value rounded down, so that the comparisons      *)
(* with 0.8 and 0.5 are the comparisons of the exact values.               *)
(***************************************************************************)
Max2(a, b) == IF a >= b THEN a ELSE b
Min2(a, b) == IF a <= b THEN a ELSE b

\* a cost, as a fraction
Cost(c) == Rat(c, 10 * 1000 * 1000)

RECURSIVE ScaledDigits(_, _, _, _)
ScaledDigits(q, r, b, k) ==
    IF k = 0 THEN [q |-> q, r |-> r]
    ELSE ScaledDigits(10 * q + ((10 * r) \div b), (10 * r) % b, b, k - 1)

\* a / b * 10^k rounded down, and rounded up
ScaledFloor(a, b, k) == ScaledDigits(a \div b, a % b, b, k).q
ScaledCeil(a, b, k) ==
    LET x == ScaledDigits(a \div b, a % b, b, k) IN IF x.r = 0 THEN x.q ELSE x.q + 1

RECURSIVE SqrtBetween(_, _, _)
SqrtBetween(n, lo, hi) ==
    IF lo = hi THEN lo
    ELSE LET mid == (lo + hi + 1) \div 2
         IN  IF mid * mid <= n THEN SqrtBetween(n, mid, hi) ELSE SqrtBetween(n, lo, mid - 1)

\* the square root rounded down, and rounded up
FloorSqrt(n) == SqrtBetween(n, 0, 46340)
CeilSqrt(n) == LET s == FloorSqrt(n) IN IF s * s = n THEN s ELSE s + 1

\* x ** 0.7 in thousandths, rounded down, for the ratios 1/den the model meets
Pow07(den) ==
    CASE den = 10 -> 199
      [] den = 20 -> 122
      [] den = 50 -> 64
      [] den = 100 -> 39
      [] den = 200 -> 24
      [] den = 500 -> 12
      [] den = 1000 -> 7

USDC_MINT == "USDC"
BONK_MINT == "BONK"
MAJOR_TOKENS == {SOL_MINT, USDC_MINT}
MEDIUM_TOKENS == {BONK_MINT}

\* fees.estimate_network_fee("solana", swap_size_usd)
estimate_network_fee(swap_size_usd) ==
    Min2(((5000 + 10000) * 150) \div (100 * swap_size_usd), 10000)

\* a slippage returned as computed
SlippageUnclamped(slippage) == slippage

\* arbitrage.estimate_slippage, line 181
SlippageClamp(slippage) == Min2(Max2(slippage, 5000), 150000)

\* arbitrage.estimate_slippage; price_coherence in thousandths, fee_bps 0 for None
estimate_slippage(token_mint, liquidity_usd, swap_size_usd, fee_bps, price_coherence, pool_count) ==
    LET base_slippage == IF token_mint \in MAJOR_TOKENS THEN 5000
                         ELSE IF token_mint \in MEDIUM_TOKENS THEN 20000
                         ELSE 40000
        \* thousandths
        coherence_multiplier == Max2(500, 2000 - price_coherence)
        \* tenths
        pool_multiplier == Max2(10, 20 - 2 * pool_count)
        \* hundredths
        liq_multiplier == IF liquidity_usd >= 1000000 THEN 50
                          ELSE IF liquidity_usd >= 500000 THEN 75
                          ELSE IF liquidity_usd >= 100000 THEN 100
                          ELSE IF liquidity_usd >= 50000 THEN 125
                          ELSE IF liquidity_usd >= 10000 THEN 150
                          ELSE 200
        \* thousandths; size_ratio is 1 / den, capped at 1/10
        size_multiplier ==
            IF liquidity_usd > 0
            THEN IF 10 * swap_size_usd >= liquidity_usd THEN 1000 + 2 * Pow07(10)
                 ELSE 1000 + 2 * Pow07(liquidity_usd \div swap_size_usd)
            ELSE 2000
        \* tenths
        fee_multiplier == IF fee_bps = 0 THEN 10
                          ELSE IF fee_bps >= 300 THEN 12
                          ELSE IF fee_bps >= 100 THEN 10
                          ELSE 9
        s1 == (base_slippage * coherence_multiplier) \div 1000
        s2 == (s1 * pool_multiplier) \div 10
        s3 == (s2 * liq_multiplier) \div 100
        s4 == (s3 * size_multiplier) \div 1000
        s5 == (s4 * fee_multiplier) \div 10
    IN  SlippageClamp(s5)

\* arbitrage.estimate_price_impact
estimate_price_impact(liquidity_usd, swap_size_usd) ==
    LET base_impact == IF liquidity_usd >= 1000000 THEN 5000
                       ELSE IF liquidity_usd >= 200000 THEN 10000
                       ELSE IF liquidity_usd >= 20000 THEN 20000
                       ELSE 50000
        \* thousandths: (swap_size_usd / 1000) ** 0.5
        size_multiplier == FloorSqrt(swap_size_usd * 1000)
    IN  Min2(Max2((base_impact * size_multiplier) \div 1000, 5000), 200000)

\* the values of a dict of prices
RECURSIVE RSum(_, _)
RSum(prices, keys) ==
    IF keys = {} THEN Zero
    ELSE LET k == CHOOSE x \in keys : TRUE
         IN  RAdd(prices[k], RSum(prices, keys \ {k}))

\* arbitrage.calculate_price_coherence; the result in thousandths
calculate_price_coherence(prices) ==
    LET n == Cardinality(DOMAIN prices)
        avg_price == RDiv(RSum(prices, DOMAIN prices), Rat(n, 1))
        sq == [k \in DOMAIN prices |->
                  RMul(RSub(prices[k], avg_price), RSub(prices[k], avg_price))]
        variance == RDiv(RSum(sq, DOMAIN prices), Rat(n, 1))
        \* cv squared, and 10 * cv in thousandths rounded up
        cv2 == RDiv(variance, RMul(avg_price, avg_price))
        cv10 == CeilSqrt(ScaledCeil(cv2.n, cv2.d, 8))
    IN  IF n < 2 THEN 0
        ELSE IF avg_price.n = 0 THEN 0
        ELSE Min2(Max2(0, 1000 - cv10), 1000)

\* arbitrage.assess_volatility_risk, in thousandths
assess_volatility_risk(spread_brut, price_coherence) ==
    LET spread_risk == Min2(ScaledFloor(spread_brut.n, spread_brut.d, 4), 1000)
        coherence_risk == 1000 - price_coherence
        risk == (4 * spread_risk + 6 * coherence_risk) \div 10
    IN  Min2(Max2(risk, 0), 1000)

\* arbitrage.calculate_confidence_score
calculate_confidence_score(prices, liquidity_usd, volume_24h, spread_brut) ==
    LET dex_count == Cardinality(DOMAIN prices)
        price_coherence == calculate_price_coherence(prices)
        liq_score == IF liquidity_usd >= 500000 THEN 30
                     ELSE IF liquidity_usd >= 100000 THEN 25
                     ELSE IF liquidity_usd >= 50000 THEN 20
                     ELSE IF liquidity_usd >= 10000 THEN 10
                     ELSE 5
        volatility_risk == assess_volatility_risk(spread_brut, price_coherence)
        dex_score == IF dex_count >= 4 THEN 10
                     ELSE IF dex_count >= 3 THEN 7
                     ELSE IF dex_count >= 2 THEN 4
                     ELSE 0
        volume_score == IF volume_24h >= 1000000 THEN 10
                        ELSE IF volume_24h >= 100000 THEN 7
                        ELSE IF volume_24h >= 10000 THEN 4
                        ELSE 2
        \* thousandths of a point
        total == price_coherence * 30 + (1000 - volatility_risk) * 20
                 + 1000 * (liq_score + dex_score + volume_score)
    IN  Min2(Max2(total \div 1000, 0), 100)

\* a MEV assessment that looks at the liquidity and the spread only
MevRiskWithoutAllowList(token_mint, liquidity_usd, spread_brut) ==
    IF RLt(Rat(5, 100), spread_brut) /\ liquidity_usd < 50000
    THEN [risk_level |-> "high", slippage_buffer |-> 50000, should_reject |-> TRUE]
    ELSE IF liquidity_usd < 10000
    THEN [risk_level |-> "high", slippage_buffer |-> 50000, should_reject |-> TRUE]
    ELSE IF liquidity_usd < 50000 \/ RLt(Rat(3, 100), spread_brut)
    THEN [risk_level |-> "medium", slippage_buffer |-> 20000, should_reject |-> FALSE]
    ELSE [risk_level |-> "low", slippage_buffer |-> 0, should_reject |-> FALSE]

\* arbitrage.assess_mev_risk
assess_mev_risk(token_mint, liquidity_usd, spread_brut) ==
    IF token_mint \in MAJOR_TOKENS
    THEN [risk_level |-> "low", slippage_buffer |-> 0, should_reject |-> FALSE]
    ELSE IF RLt(Rat(5, 100), spread_brut) /\ liquidity_usd < 50000
    THEN [risk_level |-> "high", slippage_buffer |-> 50000, should_reject |-> TRUE]
    ELSE IF liquidity_usd < 10000
    THEN [risk_level |-> "high", slippage_buffer |-> 50000, should_reject |-> TRUE]
    ELSE IF liquidity_usd < 50000 \/ RLt(Rat(3, 100), spread_brut)
    THEN [risk_level |-> "medium", slippage_buffer |-> 20000, should_reject |-> FALSE]
    ELSE [risk_level |-> "low", slippage_buffer |-> 0, should_reject |-> FALSE]

(***************************************************************************)
(* The aggregated evaluator, arbitrage.compute_spread_and_metrics.         *)
(* Evaluate returns the opportunity (or None) with the guard that ended    *)
(* the evaluation, which the program only writes to its log.  Liquidities  *)
(* are whole, even numbers of dollars, so the average of two is whole.     *)
(***************************************************************************)
\* pool_prices.get_pool_prices_for_token, with the pools already fetched
get_pool_prices_for_token(raw_pools, token_mint, base_mint) ==
    LET normalized == [k \in 1..Len(raw_pools) |->
                          normalize_price_for_token(raw_pools[k], token_mint, base_mint)]
    IN  SelectSeq(normalized, LAMBDA p : p # None)

\* a filter that keeps every pool
KeepEveryPool(pools, min_liquidity_usd) == pools

\* pool_prices.filter_pools_by_liquidity
filter_pools_by_liquidity(pools, min_liquidity_usd) ==
    SelectSeq(pools, LAMBDA p : p.liquidity_usd >= min_liquidity_usd)

\* sorted(): stable, ascending on the key
RECURSIVE InsertAsc(_, _)
InsertAsc(sorted, e) ==
    IF Len(sorted) = 0 THEN <<e>>
    ELSE IF RLt(e.key, Head(sorted).key) THEN <<e>> \o sorted
    ELSE <<Head(sorted)>> \o InsertAsc(Tail(sorted), e)

RECURSIVE SortAsc(_)
SortAsc(s) ==
    IF Len(s) = 0 THEN <<>>
    ELSE InsertAsc(SortAsc(SubSeq(s, 1, Len(s) - 1)), s[Len(s)])

\* pool_prices.sort_pools_by_buy_price
sort_pools_by_buy_price(pools) ==
    LET keyed == SortAsc([k \in 1..Len(pools) |-> [key |-> pools[k].buy_price, pool |-> pools[k]]])
    IN  [k \in 1..Len(pools) |-> keyed[k].pool]

\* a sort on the sell price without reverse=True
SortBySellAscending(pools) ==
    LET keyed == SortAsc([k \in 1..Len(pools) |-> [key |-> pools[k].sell_price, pool |-> pools[k]]])
    IN  [k \in 1..Len(pools) |-> keyed[k].pool]

\* pool_prices.sort_pools_by_sell_price: reverse=True keeps equal pools in order
sort_pools_by_sell_price(pools) ==
    LET keyed == SortAsc([k \in 1..Len(pools) |->
                             [key |-> RSub(Zero, pools[k].sell_price), pool |-> pools[k]]])
    IN  [k \in 1..Len(pools) |-> keyed[k].pool]

\* lines 500 and 621: {dex: buy_price}, a later pool of a DEX replacing an earlier one
PriceByDex(pools) ==
    LET Last(d) == CHOOSE k \in 1..Len(pools) :
                       /\ pools[k].dex = d
                       /\ \A m \in (k + 1)..Len(pools) : pools[m].dex # d
    IN  [d \in {pools[k].dex : k \in 1..Len(pools)} |-> pools[Last(d)].buy_price]

Rejected(reason) == [opp |-> None, reason |-> reason]

\* lines 511-515 removed
SpreadNeverTooHigh(spread_brut) == FALSE

\* lines 511-515
SpreadTooHigh(spread_brut) == RLt(Rat(20, 100), spread_brut)

\* lines 626-631 removed
CoherenceNeverTooLow(price_coherence) == FALSE

\* lines 626-631: the last guardrail, on the coherence in thousandths
CoherenceTooLow(price_coherence) == price_coherence < 500

\* lines 536-700: the costs, the last filters and the result
EvaluateLegs(pools, token_mint, buy_pool, sell_pool, spread_brut, price_coherence, volume_24h, swap_size_usd) ==
    LET total_dex_fees == RAdd(buy_pool.fee_pct, sell_pool.fee_pct)
        network_fee == estimate_network_fee(swap_size_usd)
        buy_pool_liq == buy_pool.liquidity_usd
        sell_pool_liq == sell_pool.liquidity_usd
        avg_pool_liq == (buy_pool_liq + sell_pool_liq) \div 2
        buy_slippage == estimate_slippage(token_mint, buy_pool_liq, swap_size_usd,
                                          buy_pool.fee_bps, price_coherence, Len(pools))
        sell_slippage == estimate_slippage(token_mint, sell_pool_liq, swap_size_usd,
                                           sell_pool.fee_bps, price_coherence, Len(pools))
        mev_assessment == assess_mev_risk(token_mint, avg_pool_liq, spread_brut)
        total_slippage == buy_slippage + sell_slippage + mev_assessment.slippage_buffer
        price_impact == estimate_price_impact(avg_pool_liq, swap_size_usd)
        total_costs == RAdd(total_dex_fees, Cost(network_fee + total_slippage + price_impact))
        spread_net == RSub(spread_brut, total_costs)
    IN  IF avg_pool_liq < 10000 THEN Rejected("average liquidity")
        ELSE IF Min2(buy_pool_liq, sell_pool_liq) < 5000 THEN Rejected("minimum leg liquidity")
        ELSE IF mev_assessment.should_reject THEN Rejected("mev")
        ELSE IF RLt(spread_net, MIN_SPREAD_AFTER_FEES) THEN Rejected("minimum spread")
        ELSE IF CoherenceTooLow(price_coherence) THEN Rejected("coherence")
        ELSE [reason |-> "emitted",
              opp |-> [token |-> token_mint,
                       buy_dex |-> buy_pool.dex, sell_dex |-> sell_pool.dex,
                       buy_pool_id |-> buy_pool.pool_id, sell_pool_id |-> sell_pool.pool_id,
                       buy_price |-> buy_pool.buy_price, sell_price |-> sell_pool.sell_price,
                       pool_count |-> Len(pools),
                       spread_brut |-> spread_brut, spread_net |-> spread_net,
                       total_dex_fees |-> total_dex_fees, network_fee |-> network_fee,
                       buy_slippage |-> buy_slippage, sell_slippage |-> sell_slippage,
                       slippage_buffer |-> mev_assessment.slippage_buffer,
                       total_slippage |-> total_slippage, price_impact |-> price_impact,
                       total_costs |-> total_costs,
                       liquidity_usd |-> avg_pool_liq,
                       price_coherence |-> price_coherence,
                       confidence_score |->
                           calculate_confidence_score(PriceByDex(pools), avg_pool_liq,
                                                      volume_24h, spread_brut),
                       mev_risk |-> mev_assessment.risk_level]]

\* lines 445-533: the candidate pools, the two legs and the guards on prices
Evaluate(raw_pools, token_mint, base_mint, volume_24h, swap_size_usd) ==
    LET pools == filter_pools_by_liquidity(
                     get_pool_prices_for_token(raw_pools, token_mint, base_mint), 10000)
        sorted_by_sell == sort_pools_by_sell_price(pools)
        buy_pool == sort_pools_by_buy_price(pools)[1]
        same == buy_pool.pool_id = sorted_by_sell[1].pool_id
        sell_pool == IF same THEN sorted_by_sell[2] ELSE sorted_by_sell[1]
        buy_price == buy_pool.buy_price
        sell_price == sell_pool.sell_price
        spread_brut == RDiv(RSub(sell_price, buy_price), buy_price)
        price_coherence == calculate_price_coherence(PriceByDex(pools))
    IN  IF Len(pools) < 2 THEN Rejected("not enough pools")
        ELSE IF Cardinality({pools[k].dex : k \in 1..Len(pools)}) < 2
        THEN Rejected("not enough DEX")
        ELSE IF same /\ Len(pools) < 3 THEN Rejected("one pool")
        ELSE IF RLe(buy_price, Zero) \/ RLe(sell_price, Zero) THEN Rejected("price")
        ELSE IF Len(pools) < 3 /\ RLt(Rat(10, 100), spread_brut) /\ price_coherence < 800
        THEN Rejected("incoherent spread")
        ELSE IF SpreadTooHigh(spread_brut) THEN Rejected("spread above 20%")
        ELSE IF RLt(buy_pool.sell_price, buy_pool.buy_price) THEN Rejected("buy pool quote")
        ELSE IF RLt(sell_pool.sell_price, sell_pool.buy_price) THEN Rejected("sell pool quote")
        ELSE EvaluateLegs(pools, token_mint, buy_pool, sell_pool, spread_brut,
                          price_coherence, volume_24h, swap_size_usd)

\* arbitrage.compute_spread_and_metrics with its default volume and swap size
compute_spread_and_metrics(raw_pools, token_mint, base_mint) ==
    Evaluate(raw_pools, token_mint, base_mint, 50000, 1000)

(***************************************************************************)
(* One evaluation of a token over the pools the fetchers returned.  The    *)
(* pools come grouped by DEX in the order of fetch_all_pools; a pool       *)
(* quotes the token against SOL, the first pool possibly the other way     *)
(* round.                                                                  *)
(***************************************************************************)
MaxEvalPools == 3
EvalTokens == {USDC_MINT, BONK_MINT, TOKEN}
EvalPrices == {Rat(10, 11), Rat(1, 1), Rat(11, 10), Rat(6, 5)}
EvalLiquidity == {4000, 5000, 20000, 200000}
EvalDex == <<"raydium", "orca", "meteora">>
EvalFeeBps == <<25, 300, 100>>

\* the DEX of each pool, grouped in the order of fetch_all_pools
EvalDexOrders(n) ==
    {d \in [1..n -> 1..Len(EvalDex)] : \A k \in 1..(n - 1) : d[k] <= d[k + 1]}

EvalRawPools(token, d, prices, liq, first_reversed) ==
    [k \in 1..Len(d) |->
        IF k = 1 /\ first_reversed
        THEN RawPool(k, EvalDex[d[k]], SOL_MINT, token, prices[k], EvalFeeBps[d[k]], liq[k])
        ELSE RawPool(k, EvalDex[d[k]], token, SOL_MINT, prices[k], EvalFeeBps[d[k]], liq[k])]

InitEval ==
    /\ now = 0
    /\ recent_opportunities = EmptyMap
    /\ recent_tokens = EmptyMap
    /\ sent_opportunities = EmptyMap
    /\ sent_tokens = EmptyMap
    /\ last_call = None
    /\ pair_in = None
    /\ pair_out = None
    /\ ScanIdle
    /\ FetchIdle
    /\ \E n \in 0..MaxEvalPools, token \in EvalTokens, first_reversed \in BOOLEAN :
         \E d \in EvalDexOrders(n), prices \in [1..n -> EvalPrices],
            liq \in [1..n -> EvalLiquidity] :
             eval_in = [token |-> token,
                        raw |-> EvalRawPools(token, d, prices, liq, first_reversed)]
    /\ eval_out = None
    /\ SmartIdle
    /\ BaseIdle
    /\ NotifyIdle
    /\ CacheIdle
    /\ CallIdle

\* arbitrage.evaluate_token: one call of compute_spread_and_metrics
EvalRun ==
    /\ eval_in # None
    /\ eval_out = None
    /\ eval_out' = compute_spread_and_metrics(eval_in.raw, eval_in.token, SOL_MINT)
    /\ UNCHANGED <<now, antiVars, pairVars, scanVars, fetchVars, eval_in, smartVars, notifyVars, baseVars, cacheVars, callVars>>

NextEval == EvalRun

SpecEval == InitEval /\ [][NextEval]_vars

\* the token's pools before the liquidity filter, and after it
EvalCandidates == get_pool_prices_for_token(eval_in.raw, eval_in.token, SOL_MINT)
EvalFiltered == filter_pools_by_liquidity(EvalCandidates, 10000)
EvalDone == eval_in # None /\ eval_out # None

\* C6 as stated: two candidate pools of $5k each give no opportunity, and the
\* abort is the minimum-leg-liquidity guardrail of step 3.
C6_FiveKAbortIsMinLegGuardrail ==
    (/\ EvalDone
     /\ Len(EvalCandidates) = 2
     /\ \A k \in 1..2 : EvalCandidates[k].liquidity_usd = 5000)
    => /\ eval_out.opp = None
       /\ eval_out.reason = "minimum leg liquidity"

\* C6 amended: when fewer than two candidate pools hold $10k or more (two
\* pools of $5k each among them) there is no opportunity and the abort is the
\* pool count after the $10k liquidity filter of step 1; the liquidity
\* guardrails of step 3 never end an evaluation.
C6_LowLiquidityAbortsAtFilter ==
    EvalDone =>
        /\ Len(EvalFiltered) < 2 =>
               (eval_out.opp = None /\ eval_out.reason = "not enough pools")
        /\ eval_out.reason \notin {"average liquidity", "minimum leg liquidity"}

C6_Witness ==
    /\ EvalDone
    /\ Len(EvalCandidates) = 2
    /\ \A k \in 1..2 : EvalCandidates[k].liquidity_usd = 5000
    /\ eval_out.opp = None
    /\ eval_out.reason = "not enough pools"

\* C7: no emitted opportunity has a gross spread above 20%, whatever the
\* price coherence and the number of pools.
C7_NoSpreadAboveTwentyPercent ==
    (EvalDone /\ eval_out.opp # None) => RLe(eval_out.opp.spread_brut, Rat(20, 100))

\* three pools on two DEX or more, prices coherent at 0.8 or better, and the
\* evaluation ended by the 20% guard
C7_Witness ==
    /\ EvalDone
    /\ Len(EvalFiltered) = 3
    /\ calculate_price_coherence(PriceByDex(EvalFiltered)) >= 800
    /\ eval_out.reason = "spread above 20%"

\* the first candidate with the lowest buy price, the first with the highest
\* sell price, and the first with the highest sell price among the others
LowestBuy(c) ==
    CHOOSE k \in 1..Len(c) :
        /\ \A m \in 1..Len(c) : RLe(c[k].buy_price, c[m].buy_price)
        /\ \A m \in 1..(k - 1) : RLt(c[k].buy_price, c[m].buy_price)

HighestSell(c, others) ==
    CHOOSE k \in others :
        /\ \A m \in others : RLe(c[m].sell_price, c[k].sell_price)
        /\ \A m \in others : m < k => RLt(c[m].sell_price, c[k].sell_price)

\* C20: the buy leg is the candidate pool with the lowest buy price; the sell
\* leg is the pool with the highest sell price, unless that is the buy pool:
\* then it is the pool with the second-highest sell price when there are at
\* least three candidates, and the evaluation returns null when there are
\* fewer than three.
C20_LegSelection ==
    (/\ eval_out # None
     /\ eval_out.reason \notin {"not enough pools", "not enough DEX"}) =>
        LET c == EvalFiltered
            all == 1..Len(c)
            buy == LowestBuy(c)
            top == HighestSell(c, all)
        IN  /\ eval_out.reason = "one pool" <=> (buy = top /\ Len(c) < 3)
            /\ eval_out.reason = "emitted" =>
                   /\ eval_out.opp.buy_pool_id = c[buy].pool_id
                   /\ eval_out.opp.buy_price = c[buy].buy_price
                   /\ eval_out.opp.sell_pool_id =
                          IF buy # top THEN c[top].pool_id
                          ELSE c[HighestSell(c, all \ {top})].pool_id

\* an opportunity over three candidates whose best sell pool is the buy pool:
\* the sell leg is the pool with the second-highest sell price
C20_Witness ==
    /\ eval_out # None
    /\ eval_out.reason = "emitted"
    /\ Len(EvalFiltered) = 3
    /\ LowestBuy(EvalFiltered) = HighestSell(EvalFiltered, 1..3)
    /\ eval_out.opp.sell_pool_id # eval_out.opp.buy_pool_id
    /\ \E k \in 1..3 :
          /\ EvalFiltered[k].pool_id = eval_out.opp.sell_pool_id
          /\ RLt(EvalFiltered[k].sell_price,
                 EvalFiltered[HighestSell(EvalFiltered, 1..3)].sell_price)

\* C21: in every opportunity the slippage charged is the average of the two
\* legs' slippage estimates plus the MEV buffer, the total cost is the DEX
\* fees plus the network fee, that slippage and the price impact, and the
\* net spread is the gross spread minus the total cost.
C21_SlippageIsAverageOfLegs ==
    (eval_out # None /\ eval_out.reason = "emitted") =>
        LET o == eval_out.opp
        IN  /\ 2 * o.total_slippage =
                   o.buy_slippage + o.sell_slippage + 2 * o.slippage_buffer
            /\ o.total_costs =
                   RAdd(o.total_dex_fees,
                        Cost(o.network_fee + o.total_slippage + o.price_impact))
            /\ o.spread_net = RSub(o.spread_brut, o.total_costs)

\* C22: every opportunity returned has a net spread of at least
\* MIN_SPREAD_AFTER_FEES, a MEV assessment that does not reject and a price
\* coherence of at least 0.5; an evaluation that fails one of the three
\* returns null.
C22_OpportunityPassesEveryFilter ==
    eval_out # None =>
        /\ eval_out.reason = "emitted" =>
               LET o == eval_out.opp
               IN  /\ RLe(Rat(25, 10000), o.spread_net)
                   /\ ~assess_mev_risk(o.token, o.liquidity_usd, o.spread_brut).should_reject
                   /\ o.mev_risk # "high"
                   /\ o.price_coherence >= 500
        /\ eval_out.reason \in {"mev", "minimum spread", "coherence"} => eval_out.opp = None

\* an opportunity of an unlisted token at medium MEV risk and a coherence
\* between 0.5 and 0.8
C22_Witness ==
    /\ eval_out # None
    /\ eval_out.reason = "emitted"
    /\ eval_out.opp.token = TOKEN
    /\ eval_out.opp.mev_risk = "medium"
    /\ eval_out.opp.price_coherence >= 500
    /\ eval_out.opp.price_coherence < 800
    /\ RLe(MIN_SPREAD_AFTER_FEES, eval_out.opp.spread_net)

CACHE_TTL_SECONDS == 30
SOLANA_DEX == <<"raydium", "orca", "meteora", "lifinity", "phoenix">>

\* the pools a DEX serves when its API answers
DexPools(k) == <<RawPool(k, SOLANA_DEX[k], TOKEN, SOL_MINT, Rat(k, 1), 25, 200000)>>

\* pool_fetchers.fetch_with_retry: the body of the first 200 answer among
\* max_retries attempts, None when there is none
fetch_with_retry(responses, max_retries) ==
    IF \E a \in 1..max_retries : a <= Len(responses) /\ responses[a] = 200
    THEN [data |-> TRUE]
    ELSE None

\* what gather(..., return_exceptions=True) holds for a fetcher that returned
Returned(pools) == [exception |-> FALSE, pools |-> pools]

\* fetch_raydium_pools and the four like it: a list of pools, or an exception
\* raised while reading a body of the wrong shape
FetchDexPools(k, api) ==
    LET data == fetch_with_retry(api.responses, MAX_RETRIES)
    IN  IF data = None THEN Returned(<<>>)
        ELSE IF api.body = "malformed" THEN [exception |-> TRUE, pools |-> <<>>]
        ELSE Returned(DexPools(k))

IsException(x) == x.exception

\* an exception left in the results
KeepException(x) == x

\* fetch_all_pools, lines 542-556: an exception becomes an empty list
EmptyIfException(x) == IF IsException(x) THEN Returned(<<>>) ELSE x

\* a cache stamped with the time the fetch ended
TimeAfterFetch(time_before_fetch, time_after_fetch) == time_after_fetch

\* pool_fetchers.py 571 and 844: the timestamp stored with the data is the
\* time read at the head of the call, before the fetch
StoredTimestamp(time_before_fetch, time_after_fetch) == time_before_fetch

MaxLookups == 2
CacheMaxClock == 30
CacheElapsed == {15, 30}
DexAnswers ==
    {[responses |-> <<200>>, body |-> "pools"],
     [responses |-> <<429, 500, 200>>, body |-> "pools"],
     [responses |-> <<500, 0, 429>>, body |-> "pools"],
     [responses |-> <<200>>, body |-> "malformed"]}

\* the DEX whose fetcher returns its pools
Healthy(k) ==
    /\ fetch_with_retry(dex_api[k].responses, MAX_RETRIES) # None
    /\ dex_api[k].body = "pools"

\* a task that has not called fetch_all_pools yet; `hit` tells whether its
\* last call returned the cache, `fetch_started` when the fetch began that
\* produced what the call returned
NewLookup == [pc |-> "start", current_time |-> 0, hit |-> FALSE, fetch_started |-> 0]

InitCache ==
    /\ now = 0
    /\ recent_opportunities = EmptyMap
    /\ recent_tokens = EmptyMap
    /\ sent_opportunities = EmptyMap
    /\ sent_tokens = EmptyMap
    /\ last_call = None
    /\ pair_in = None
    /\ pair_out = None
    /\ ScanIdle
    /\ FetchIdle
    /\ EvalIdle
    /\ SmartIdle
    /\ BaseIdle
    /\ NotifyIdle
    /\ CallIdle
    /\ pools_cache = None
    /\ cache_timestamp = 0
    /\ lookups = [t \in 1..MaxLookups |-> NewLookup]
    /\ fanouts = <<>>
    /\ dex_api \in [1..Len(SOLANA_DEX) -> DexAnswers]

\* fetch_all_pools, lines 520-539: the cache is returned, or the five
\* fetchers are started
LookupStart(t) ==
    /\ lookups[t].pc = "start"
    /\ IF pools_cache # None /\ now - cache_timestamp < CACHE_TTL_SECONDS
       THEN /\ lookups' = [lookups EXCEPT ![t] =
                               [pc |-> "done", current_time |-> now, hit |-> TRUE,
                                fetch_started |-> pools_cache.fetch_started]]
            /\ UNCHANGED fanouts
       ELSE /\ lookups' = [lookups EXCEPT ![t] =
                               [pc |-> "fetching", current_time |-> now, hit |-> FALSE,
                                fetch_started |-> now]]
            /\ fanouts' = Append(fanouts, now)
    /\ UNCHANGED <<now, antiVars, pairVars, scanVars, fetchVars, evalVars, smartVars, notifyVars, baseVars, callVars>>
    /\ UNCHANGED <<pools_cache, cache_timestamp, dex_api>>

\* fetch_all_pools, lines 532-573: the fetchers have ended
LookupFetched(t) ==
    /\ lookups[t].pc = "fetching"
    /\ LET gathered == [k \in 1..Len(SOLANA_DEX) |->
                           EmptyIfException(FetchDexPools(k, dex_api[k]))]
       IN  IF \E k \in 1..Len(SOLANA_DEX) : IsException(gathered[k])
           THEN \* len() of an exception, line 558
                /\ lookups' = [lookups EXCEPT ![t].pc = "failed"]
                /\ UNCHANGED <<pools_cache, cache_timestamp>>
           ELSE /\ pools_cache' = [result |-> [k \in 1..Len(SOLANA_DEX) |-> gathered[k].pools],
                                   fetch_started |-> lookups[t].fetch_started]
                /\ cache_timestamp' = StoredTimestamp(lookups[t].current_time, now)
                /\ lookups' = [lookups EXCEPT ![t].pc = "done"]
    /\ UNCHANGED <<now, antiVars, pairVars, scanVars, fetchVars, evalVars, smartVars, notifyVars, baseVars, callVars>>
    /\ UNCHANGED <<fanouts, dex_api>>

\* the next lookup of a task, get_pool_prices_for_token line 179
LookupAgain(t) ==
    /\ lookups[t].pc = "done"
    /\ lookups' = [lookups EXCEPT ![t].pc = "start"]
    /\ UNCHANGED <<now, antiVars, pairVars, scanVars, fetchVars, evalVars, smartVars, notifyVars, baseVars, callVars>>
    /\ UNCHANGED <<pools_cache, cache_timestamp, fanouts, dex_api>>

CacheTick ==
    /\ \E d \in CacheElapsed : now + d <= CacheMaxClock /\ now' = now + d
    /\ UNCHANGED <<antiVars, pairVars, scanVars, fetchVars, evalVars, smartVars, notifyVars, baseVars, cacheVars, callVars>>

NextCache ==
    \/ \E t \in 1..MaxLookups : LookupStart(t)
    \/ \E t \in 1..MaxLookups : LookupFetched(t)
    \/ \E t \in 1..MaxLookups : LookupAgain(t)
    \/ CacheTick

SpecCache == InitCache /\ [][NextCache]_vars

\* C11: a DEX whose fetch fails never fails fetch_all_pools: the call returns,
\* the failed DEX has an empty list and every other DEX has its pools.
C11_FailedDexIsEmpty ==
    /\ \A t \in DOMAIN lookups : lookups[t].pc # "failed"
    /\ (dex_api # None /\ pools_cache # None) =>
           \A k \in 1..Len(SOLANA_DEX) :
               pools_cache.result[k] = IF Healthy(k) THEN DexPools(k) ELSE <<>>

\* a fetch returned with one DEX out of retries, one raising and one healthy
C11_Witness ==
    /\ dex_api # None /\ pools_cache # None
    /\ \E t \in DOMAIN lookups : lookups[t].pc = "done"
    /\ \E k \in 1..Len(SOLANA_DEX) : fetch_with_retry(dex_api[k].responses, MAX_RETRIES) = None
    /\ \E k \in 1..Len(SOLANA_DEX) : IsException(FetchDexPools(k, dex_api[k]))
    /\ \E k \in 1..Len(SOLANA_DEX) : Healthy(k) /\ pools_cache.result[k] = DexPools(k)

\* C19: of the lookups issued within one 30 s window, concurrent ones
\* included, at most one fetches all DEX.
C19_OneFanoutPerWindow ==
    \A a, b \in DOMAIN fanouts :
        a < b => fanouts[b] - fanouts[a] >= CACHE_TTL_SECONDS

(***************************************************************************)
(* SpecFresh: the two caches with one 30-second lifetime, that of          *)
(* fetch_all_pools and that of fetch_base_pools, under a clock that lets   *)
(* a fetch outlast the lifetime.  Each task calls its function again and   *)
(* again; a call that fetches gives the event loop back meanwhile.         *)
(***************************************************************************)
FreshMaxClock == 45
FreshElapsed == {15, 30}
\* main.py 118 is the only call, and the loop awaits it
MaxBaseCalls == 1
FreshAnswers == {[responses |-> <<200>>, body |-> "pools"], [responses |-> <<500, 0, 429>>, body |-> "pools"]}

InitFresh ==
    /\ now = 0
    /\ recent_opportunities = EmptyMap
    /\ recent_tokens = EmptyMap
    /\ sent_opportunities = EmptyMap
    /\ sent_tokens = EmptyMap
    /\ last_call = None
    /\ pair_in = None
    /\ pair_out = None
    /\ ScanIdle
    /\ FetchIdle
    /\ EvalIdle
    /\ SmartIdle
    /\ NotifyIdle
    /\ CallIdle
    /\ pools_cache = None
    /\ cache_timestamp = 0
    /\ lookups = [t \in 1..MaxLookups |-> NewLookup]
    /\ fanouts = <<>>
    /\ \E a \in FreshAnswers : dex_api = [k \in 1..Len(SOLANA_DEX) |-> a]
    /\ base_cache = EmptyBaseCache
    /\ base_calls = [t \in 1..MaxBaseCalls |-> NewLookup]

\* fetch_base_pools, lines 681-684: the cache is returned, or the fetches of
\* the Base DEX begin
BaseStart(t) ==
    /\ base_calls[t].pc = "start"
    /\ IF now - base_cache.timestamp < CACHE_TTL_SECONDS
       THEN base_calls' = [base_calls EXCEPT ![t] =
                              [pc |-> "done", current_time |-> now, hit |-> TRUE,
                               fetch_started |-> base_cache.fetch_started]]
       ELSE base_calls' = [base_calls EXCEPT ![t] =
                              [pc |-> "fetching", current_time |-> now, hit |-> FALSE,
                               fetch_started |-> now]]
    /\ UNCHANGED <<now, antiVars, pairVars, scanVars, notifyVars, fetchVars, evalVars, smartVars,
                   base_cache, cacheVars, callVars>>

\* fetch_base_pools, lines 686-859: the fetches have ended and the cache is
\* written, or one of them raised and the call ends without writing it
BaseFetched(t) ==
    /\ base_calls[t].pc = "fetching"
    /\ \E raised \in BOOLEAN :
          IF raised
          THEN /\ base_calls' = [base_calls EXCEPT ![t].pc = "raised"]
               /\ UNCHANGED base_cache
          ELSE /\ base_cache' = [timestamp |-> StoredTimestamp(base_calls[t].current_time, now),
                                 data |-> <<>>,
                                 fetch_started |-> base_calls[t].fetch_started]
               /\ base_calls' = [base_calls EXCEPT ![t].pc = "done"]
    /\ UNCHANGED <<now, antiVars, pairVars, scanVars, notifyVars, fetchVars, evalVars, smartVars,
                   cacheVars, callVars>>

\* main.py 118: the call of the next cycle
BaseAgain(t) ==
    /\ base_calls[t].pc \in {"done", "raised"}
    /\ base_calls' = [base_calls EXCEPT ![t].pc = "start"]
    /\ UNCHANGED <<now, antiVars, pairVars, scanVars, notifyVars, fetchVars, evalVars, smartVars,
                   base_cache, cacheVars, callVars>>

FreshTick ==
    /\ \E d \in FreshElapsed : now + d <= FreshMaxClock /\ now' = now + d
    /\ UNCHANGED <<antiVars, pairVars, scanVars, notifyVars, fetchVars, evalVars, smartVars,
                   baseVars, cacheVars, callVars>>

NextFresh ==
    \/ \E t \in 1..MaxLookups : LookupStart(t)
    \/ \E t \in 1..MaxLookups : LookupFetched(t)
    \/ \E t \in 1..MaxLookups : LookupAgain(t)
    \/ \E t \in 1..MaxBaseCalls : BaseStart(t)
    \/ \E t \in 1..MaxBaseCalls : BaseFetched(t)
    \/ \E t \in 1..MaxBaseCalls : BaseAgain(t)
    \/ FreshTick

SpecFresh == InitFresh /\ [][NextFresh]_vars

\* a call that returned the cache got data whose fetch began less than the
\* lifetime before the call read the clock
ServedFresh(c) ==
    c.hit => /\ c.fetch_started <= c.current_time
             /\ c.current_time - c.fetch_started < CACHE_TTL_SECONDS

\* C29: fetch_all_pools (use_cache=True) and fetch_base_pools never return
\* cached data whose fetch began 30 s or more before the lookup: the timestamp
\* stored with the data is the time read before the fetch began, so a fetch
\* that lasted 30 s or more leaves an entry that has expired already.
C29_FlatCachesFresh ==
    /\ \A t \in DOMAIN lookups : ServedFresh(lookups[t])
    /\ \A t \in DOMAIN base_calls : ServedFresh(base_calls[t])
    /\ pools_cache # None => cache_timestamp = pools_cache.fetch_started
    /\ base_cache.timestamp = base_cache.fetch_started

\* C29 witness: the cache of fetch_all_pools holds what a fetch of 30 s or
\* more has stored, one task has found it expired and fetches while the last
\* call of another was served from the cache; fetch_base_pools was served
\* from its cache, which has expired since
C29_Witness ==
    /\ pools_cache # None /\ now - cache_timestamp >= CACHE_TTL_SECONDS
    /\ base_cache # EmptyBaseCache /\ now - base_cache.timestamp >= CACHE_TTL_SECONDS
    /\ \E t, u \in DOMAIN lookups :
          /\ lookups[t].pc = "fetching" /\ lookups[t].current_time = now
          /\ lookups[u].hit /\ lookups[u].current_time > lookups[u].fetch_started
    /\ \E u \in DOMAIN base_calls :
          /\ base_calls[u].pc = "done"
          /\ base_calls[u].hit /\ base_calls[u].current_time > base_calls[u].fetch_started

(***************************************************************************)
(* config.py: the numeric settings read from the environment at import.    *)
(* A variable of the environment is unset, or holds the text of a whole    *)
(* number, of a decimal number, or of no number at all.                    *)
(***************************************************************************)
ConfigNames ==
    {"TELEGRAM_CHAT_ID", "CHECK_INTERVAL_SECONDS", "MIN_NOTIFICATION_INTERVAL_SECONDS",
     "MIN_SPREAD_AFTER_FEES", "MIN_LIQUIDITY_USD", "MIN_VOLUME_24H"}

EnvValues ==
    {[kind |-> "unset"], [kind |-> "whole", n |-> 45],
     [kind |-> "decimal", x |-> Rat(1, 100)], [kind |-> "text"]}

\* the default given to os.getenv for each name; the chat id, a whole number
\* of ten digits, is written 1
ConfigDefault(name) ==
    CASE name = "TELEGRAM_CHAT_ID" -> [kind |-> "whole", n |-> 1]
      [] name = "CHECK_INTERVAL_SECONDS" -> [kind |-> "whole", n |-> CHECK_INTERVAL_SECONDS]
      [] name = "MIN_NOTIFICATION_INTERVAL_SECONDS" -> [kind |-> "whole", n |-> 60]
      [] name = "MIN_SPREAD_AFTER_FEES" -> [kind |-> "decimal", x |-> MIN_SPREAD_AFTER_FEES]
      [] name = "MIN_LIQUIDITY_USD" -> [kind |-> "whole", n |-> 50000]
      [] name = "MIN_VOLUME_24H" -> [kind |-> "whole", n |-> 100000]

\* os.getenv(name, default)
getenv(env, name) == IF env[name].kind = "unset" THEN ConfigDefault(name) ELSE env[name]

\* int(text): a value, or ValueError
ParseInt(v) ==
    IF v.kind = "whole" THEN [raised |-> FALSE, value |-> Rat(v.n, 1)]
    ELSE [raised |-> TRUE, value |-> Zero]

\* float(text): a value, or ValueError
ParseFloat(v) ==
    IF v.kind = "whole" THEN [raised |-> FALSE, value |-> Rat(v.n, 1)]
    ELSE IF v.kind = "decimal" THEN [raised |-> FALSE, value |-> v.x]
    ELSE [raised |-> TRUE, value |-> Zero]

\* the value of ConfigDefault(name)
DefaultValue(name) == ParseFloat(ConfigDefault(name)).value

\* one assignment of config.py: only MIN_SPREAD_AFTER_FEES is read inside a try
ConfigRead(env, name) ==
    LET v == getenv(env, name)
    IN  IF name \in {"TELEGRAM_CHAT_ID", "CHECK_INTERVAL_SECONDS",
                     "MIN_NOTIFICATION_INTERVAL_SECONDS"}
        THEN ParseInt(v)
        ELSE IF name = "MIN_SPREAD_AFTER_FEES"
        THEN IF ParseFloat(v).raised
             THEN [raised |-> FALSE, value |-> MIN_SPREAD_AFTER_FEES]
             ELSE ParseFloat(v)
        ELSE ParseFloat(v)

\* importing config: the settings, or the first ValueError
LoadConfig(env) ==
    LET read == [name \in ConfigNames |-> ConfigRead(env, name)]
    IN  IF \E name \in ConfigNames : read[name].raised
        THEN [aborted |-> TRUE, values |-> [name \in {} |-> Zero]]
        ELSE [aborted |-> FALSE,
              values |-> [name \in ConfigNames |->
                             IF name = "MIN_NOTIFICATION_INTERVAL_SECONDS"
                             THEN RMin({read[name].value, Rat(60, 1)})
                             ELSE read[name].value]]

ConfigCalls == {[fn |-> "config", env |-> env] : env \in [ConfigNames -> EnvValues]}

ConfigLoad ==
    /\ call # None /\ call.fn = "config" /\ ret = None
    /\ ret' = LoadConfig(call.env)
    /\ UNCHANGED <<now, antiVars, pairVars, scanVars, fetchVars, evalVars, smartVars, notifyVars, baseVars, cacheVars, call>>

\* C12: a setting whose environment text is no number gets its hard-coded
\* default, and the import of config never aborts.
C12_BadNumbersFallBack ==
    (call # None /\ call.fn = "config" /\ ret # None) =>
        /\ ~ret.aborted
        /\ \A name \in ConfigNames :
               call.env[name].kind = "text" => ret.values[name] = DefaultValue(name)

(***************************************************************************)
(* pool_prices.normalize_price_for_token on both orientations of a pool.   *)
(* Prices are exact rationals, so that the reversed pool quotes exactly    *)
(* 1/p.                                                                    *)
(***************************************************************************)
NormalizeTokens == {"", TOKEN, SOL_MINT, USDC_MINT}
NormalizePrices == {None, Zero, Rat(-1, 2), Rat(1, 2), Rat(2, 3), Rat(3, 1), Rat(49, 1)}

\* the same pool listed the other way round: the two mints swapped and the
\* price inverted
Reversed(pool) ==
    [pool EXCEPT !.token_a = pool.token_b, !.token_b = pool.token_a,
                 !.price = IF pool.price = None \/ pool.price = Zero THEN pool.price
                           ELSE RDiv(One, pool.price)]

NormalizeCalls ==
    {[fn |-> "normalize", pool |-> RawPool(1, "raydium", ta, tb, price, 25, 200000),
      token_mint |-> TOKEN, base_mint |-> base] :
        ta \in NormalizeTokens, tb \in NormalizeTokens, price \in NormalizePrices,
        base \in {SOL_MINT, USDC_MINT}}

Normalize ==
    /\ call # None /\ call.fn = "normalize" /\ ret = None
    /\ ret' = [direct |-> normalize_price_for_token(call.pool, call.token_mint, call.base_mint),
               reversed |-> normalize_price_for_token(Reversed(call.pool), call.token_mint,
                                                      call.base_mint)]
    /\ UNCHANGED <<now, antiVars, pairVars, scanVars, fetchVars, evalVars, smartVars, notifyVars, baseVars, cacheVars, call>>

\* the pool pairs the token with the base, in one orientation or the other
PairsTokenWithBase(c) ==
    \/ c.pool.token_a = c.token_mint /\ c.pool.token_b = c.base_mint
    \/ c.pool.token_a = c.base_mint /\ c.pool.token_b = c.token_mint

HasPositivePrice(c) == c.pool.price # None /\ RLt(Zero, c.pool.price)

HashPoolIds == 1..3

HashCalls ==
    {[fn |-> "hash", token |-> token, p1 |-> p1, p2 |-> p2] :
        token \in {TOKEN, TOKEN2}, p1 \in HashPoolIds, p2 \in HashPoolIds}

Hash ==
    /\ call # None /\ call.fn = "hash" /\ ret = None
    /\ ret' = [forward |-> generate_opportunity_hash(call.token, call.p1, call.p2),
               backward |-> generate_opportunity_hash(call.token, call.p2, call.p1)]
    /\ UNCHANGED <<now, antiVars, pairVars, scanVars, fetchVars, evalVars, smartVars, notifyVars, baseVars, cacheVars, call>>

\* C16: the opportunity hash of a token and two pools is the same whichever
\* of the two pools is given as the buy pool.
C16_HashOrderInvariant ==
    (call # None /\ call.fn = "hash" /\ ret # None) => ret.forward = ret.backward

\* two different pools, the larger id given first, were hashed both ways
C16_Witness ==
    /\ call # None /\ call.fn = "hash" /\ ret # None
    /\ call.p1 > call.p2
    /\ ret.forward = <<call.token, call.p2, call.p1>>
    /\ ret.backward = <<call.token, call.p2, call.p1>>

(***************************************************************************)
(* arbitrage.assess_mev_risk over tokens, liquidities and gross spreads.   *)
(***************************************************************************)
MevTokens == {SOL_MINT, USDC_MINT, BONK_MINT, TOKEN}
MevLiquidity == {0, 5000, 9999, 10000, 49999, 50000, 200000}
MevSpreads == {Rat(1, 100), Rat(3, 100), Rat(4, 100), Rat(5, 100), Rat(6, 100), Rat(19, 100)}

MevCalls ==
    {[fn |-> "mev", token_mint |-> token, liquidity_usd |-> liq, spread_brut |-> spread] :
        token \in MevTokens, liq \in MevLiquidity, spread \in MevSpreads}

MevRisk ==
    /\ call # None /\ call.fn = "mev" /\ ret = None
    /\ ret' = [mev |-> assess_mev_risk(call.token_mint, call.liquidity_usd, call.spread_brut)]
    /\ UNCHANGED <<now, antiVars, pairVars, scanVars, fetchVars, evalVars, smartVars, notifyVars, baseVars, cacheVars, call>>

\* C17: for a token of the major-token allow-list, assess_mev_risk returns
\* should_reject false, risk level "low" and a slippage buffer of 0 whatever
\* the liquidity and the spread.
C17_MajorTokensNeverMevRejected ==
    (call # None /\ call.fn = "mev" /\ ret # None /\ call.token_mint \in MAJOR_TOKENS) =>
        /\ ~ret.mev.should_reject
        /\ ret.mev.risk_level = "low"
        /\ ret.mev.slippage_buffer = 0

\* a major token with less than $10k of liquidity and a spread above 5% was
\* assessed, an input that rejects any other token
C17_Witness ==
    /\ call # None /\ call.fn = "mev" /\ ret # None
    /\ call.token_mint = USDC_MINT
    /\ call.liquidity_usd < 10000
    /\ RLt(Rat(5, 100), call.spread_brut)
    /\ ~ret.mev.should_reject
    /\ assess_mev_risk(TOKEN, call.liquidity_usd, call.spread_brut).should_reject

(***************************************************************************)
(* arbitrage.estimate_slippage and arbitrage.estimate_price_impact over    *)
(* tokens, liquidities, swap sizes, fee tiers, coherences and pool counts. *)
(* Amounts are in ten-millionths: 5000 is 0.0005, 150000 is 0.015 and      *)
(* 200000 is 0.02.                                                         *)
(***************************************************************************)
CostTokens == {USDC_MINT, BONK_MINT, TOKEN}
CostLiquidity == {0, 5000, 20000, 100000, 1000000}
CostSwapSizes == {100, 1000, 20000}
CostFeeBps == {0, 25, 100, 300}
CostCoherence == {0, 500, 1000}
CostPoolCounts == {1, 5, 10}

\* the swap is at least a tenth of the pool, or a ratio Pow07 tabulates
CostSizes ==
    {z \in CostLiquidity \X CostSwapSizes :
        \/ z[1] = 0
        \/ 10 * z[2] >= z[1]
        \/ z[1] \div z[2] \in {10, 20, 50, 100, 200, 500, 1000}}

CostCalls ==
    {[fn |-> "cost", token_mint |-> token, liquidity_usd |-> z[1], swap_size_usd |-> z[2],
      fee_bps |-> fee, price_coherence |-> coherence, pool_count |-> count] :
        token \in CostTokens, z \in CostSizes, fee \in CostFeeBps,
        coherence \in CostCoherence, count \in CostPoolCounts}

EstimateCosts ==
    /\ call # None /\ call.fn = "cost" /\ ret = None
    /\ ret' = [slippage |-> estimate_slippage(call.token_mint, call.liquidity_usd,
                                              call.swap_size_usd, call.fee_bps,
                                              call.price_coherence, call.pool_count),
               impact |-> estimate_price_impact(call.liquidity_usd, call.swap_size_usd)]
    /\ UNCHANGED <<now, antiVars, pairVars, scanVars, fetchVars, evalVars, smartVars, notifyVars, baseVars, cacheVars, call>>

\* C18: estimate_slippage returns a value in [0.0005, 0.015] and
\* estimate_price_impact a value in [0.0005, 0.02].
C18_EstimatesClamped ==
    (call # None /\ call.fn = "cost" /\ ret # None) =>
        /\ 5000 <= ret.slippage /\ ret.slippage <= 150000
        /\ 5000 <= ret.impact /\ ret.impact <= 200000

\* a small pool of an unlisted token with incoherent prices and a large swap:
\* both estimates were computed and sit on their upper bounds
C18_Witness ==
    /\ call # None /\ call.fn = "cost" /\ ret # None
    /\ call.token_mint = TOKEN /\ call.liquidity_usd = 5000 /\ call.swap_size_usd = 20000
    /\ call.price_coherence = 0 /\ call.pool_count = 1 /\ call.fee_bps = 300
    /\ ret.slippage = 150000
    /\ ret.impact = 200000

(***************************************************************************)
(* base_dex_fetchers.evaluate_base_arbitrage: the quotes of the four Base  *)
(* DEX for one token, as get_all_base_dex_prices returns them, and the     *)
(* opportunity made of the lowest and the highest price.                   *)
(***************************************************************************)
BASE_DEX_NAMES == <<"uniswap", "aerodrome", "pancakeswap", "kyberswap">>

\* base_dex_fetchers.py 45-50
BASE_DEX_FEES ==
    [uniswap |-> Rat(3, 1000), aerodrome |-> Rat(4, 10000),
     pancakeswap |-> Rat(25, 10000), kyberswap |-> Rat(1, 1000)]

\* a quote whose "liquidity" is None
NO_LIQUIDITY == -1

estimate_base_slippage(liquidity_usd) ==
    IF liquidity_usd = NO_LIQUIDITY \/ liquidity_usd <= 0 THEN Rat(3, 1000)
    ELSE IF liquidity_usd >= 1000000 THEN Rat(5, 10000)
    ELSE IF liquidity_usd >= 200000 THEN Rat(1, 1000)
    ELSE IF liquidity_usd >= 20000 THEN Rat(25, 10000)
    ELSE Rat(5, 1000)

calculate_base_mev_penalty(liquidity_usd) ==
    LET base_penalty == Rat(15, 10000)
    IN  IF liquidity_usd # NO_LIQUIDITY /\ liquidity_usd < 30000
        THEN RAdd(base_penalty, Rat(25, 10000))
        ELSE base_penalty

RAbs(x) == [n |-> Abs(x.n), d |-> x.d]

\* an evaluator that lets every net spread pass
NeverBelowMinSpread(spread_net, min_spread) == FALSE

\* evaluate_base_arbitrage, line 857: spread_net < min_spread
BelowMinSpread(spread_net, min_spread) == RLt(spread_net, min_spread)

\* min(prices, key=prices.get) and max(...): the first DEX, in the order of
\* the dict, among those of the lowest (highest) price
FirstLowest(valid, quotes) ==
    CHOOSE k \in valid :
        /\ \A j \in valid : RLe(quotes[k].price, quotes[j].price)
        /\ \A j \in valid : j < k => RLt(quotes[k].price, quotes[j].price)

FirstHighest(valid, quotes) ==
    CHOOSE k \in valid :
        /\ \A j \in valid : RLe(quotes[j].price, quotes[k].price)
        /\ \A j \in valid : j < k => RLt(quotes[j].price, quotes[k].price)

\* lines 825-835: the lowest liquidity known, $50k when none is
LowestLiquidity(valid, quotes) ==
    LET known == {quotes[k].liquidity : k \in valid} \ {NO_LIQUIDITY}
    IN  IF known = {} THEN 50000
        ELSE CHOOSE l \in known : \A x \in known : l <= x

\* quote.get("fee_decimal", BASE_DEX_FEES.get(dex, 0.003))
QuoteFee(k, quotes) ==
    IF quotes[k].fee_decimal = None THEN BASE_DEX_FEES[BASE_DEX_NAMES[k]]
    ELSE quotes[k].fee_decimal

evaluate_base_arbitrage(quotes, min_spread) ==
    LET valid == {k \in DOMAIN quotes : quotes[k] # None /\ RLt(Zero, quotes[k].price)}
    IN  IF Cardinality(valid) < 2 THEN None
        ELSE
        LET buy == FirstLowest(valid, quotes)
            sell == FirstHighest(valid, quotes)
            buy_price == quotes[buy].price
            sell_price == quotes[sell].price
            spread_brut == RDiv(RSub(sell_price, buy_price), buy_price)
            liquidity == LowestLiquidity(valid, quotes)
            dex_fees == RAdd(QuoteFee(buy, quotes), QuoteFee(sell, quotes))
            network_fee == Rat(1, 1000)
            slippage == RMul(estimate_base_slippage(liquidity), Rat(2, 1))
            mev_penalty == calculate_base_mev_penalty(liquidity)
            total_price_impact ==
                RAdd(RAbs(quotes[buy].price_impact), RAbs(quotes[sell].price_impact))
            total_costs ==
                RAdd(RAdd(RAdd(RAdd(dex_fees, network_fee), slippage), mev_penalty),
                     total_price_impact)
            spread_net == RSub(spread_brut, total_costs)
        IN  IF BelowMinSpread(spread_net, min_spread) THEN None
            ELSE [chain |-> "base",
                  buy_dex |-> BASE_DEX_NAMES[buy], sell_dex |-> BASE_DEX_NAMES[sell],
                  buy_price |-> buy_price, sell_price |-> sell_price,
                  dex_count |-> Cardinality(valid),
                  spread_brut |-> spread_brut, spread_net |-> spread_net,
                  total_costs |-> total_costs, liquidity |-> liquidity]

\* the prices quoted, 0 for a quote that is not valid
BaseQuotePrices == {Zero, One, Rat(101, 100), Rat(103, 100)}
BaseQuoteFees == {None, Zero, Rat(5, 10000)}
BaseQuoteImpacts == {Zero, Rat(1, 100)}
BaseQuoteLiquidity == {NO_LIQUIDITY, 25000, 1000000}
BaseMinSpreads == {Zero, Rat(3, 1000)}

\* a DEX gives no quote or one of the prices; the fee, the price impact and
\* the liquidity are those of the call for every DEX that quotes
BaseArbCalls ==
    {[fn |-> "base_arb", min_spread |-> ms,
      quotes |-> [k \in 1..Len(BASE_DEX_NAMES) |->
                     IF p[k] = None THEN None
                     ELSE [price |-> p[k], fee_decimal |-> fee, price_impact |-> impact,
                           liquidity |-> liq]]] :
        p \in [1..Len(BASE_DEX_NAMES) -> BaseQuotePrices \cup {None}],
        fee \in BaseQuoteFees, impact \in BaseQuoteImpacts, liq \in BaseQuoteLiquidity,
        ms \in BaseMinSpreads}

EvaluateBase ==
    /\ call # None /\ call.fn = "base_arb" /\ ret = None
    /\ ret' = [opportunity |-> evaluate_base_arbitrage(call.quotes, call.min_spread)]
    /\ UNCHANGED <<now, antiVars, pairVars, scanVars, fetchVars, evalVars, smartVars, notifyVars, baseVars, cacheVars, call>>

\* the valid quotes of a call
ValidQuotes(quotes) == {k \in DOMAIN quotes : quotes[k] # None /\ RLt(Zero, quotes[k].price)}

\* C30: with min_spread >= 0 and quoted fees and price impacts that are not
\* negative, every opportunity evaluate_base_arbitrage returns has
\* sell_price > buy_price and buy_dex # sell_dex; when all the valid quotes
\* carry one price, so that min and max pick the same DEX, the result is null.
C30_BaseLegsDiffer ==
    (call # None /\ call.fn = "base_arb" /\ ret # None) =>
        LET valid == ValidQuotes(call.quotes)
        IN  /\ ret.opportunity # None =>
                   /\ RLt(ret.opportunity.buy_price, ret.opportunity.sell_price)
                   /\ ret.opportunity.buy_dex # ret.opportunity.sell_dex
            /\ (\A j, k \in valid : call.quotes[j].price = call.quotes[k].price) =>
                   ret.opportunity = None

\* C30 witness: four valid quotes, the lowest and the highest price each
\* quoted twice, and an opportunity returned from the first DEX of each
C30_Witness ==
    /\ call # None /\ call.fn = "base_arb" /\ ret # None
    /\ ret.opportunity # None
    /\ ret.opportunity.dex_count = 4
    /\ call.quotes[1].price = call.quotes[3].price
    /\ call.quotes[2].price = call.quotes[4].price
    /\ ret.opportunity.buy_dex = "uniswap"
    /\ ret.opportunity.sell_dex = "aerodrome"

(***************************************************************************)
(* The calls of the functions above, one per behaviour.                    *)
(***************************************************************************)
Calls ==
    ConfigCalls \cup NormalizeCalls \cup HashCalls \cup MevCalls \cup CostCalls \cup BaseArbCalls

InitCalls ==
    /\ now = 0
    /\ recent_opportunities = EmptyMap
    /\ recent_tokens = EmptyMap
    /\ sent_opportunities = EmptyMap
    /\ sent_tokens = EmptyMap
    /\ last_call = None
    /\ pair_in = None
    /\ pair_out = None
    /\ ScanIdle
    /\ FetchIdle
    /\ EvalIdle
    /\ SmartIdle
    /\ BaseIdle
    /\ NotifyIdle
    /\ CacheIdle
    /\ call \in Calls
    /\ ret = None

NextCalls ==
    \/ ConfigLoad
    \/ Normalize
    \/ Hash
    \/ MevRisk
    \/ EstimateCosts
    \/ EvaluateBase

SpecCalls == InitCalls /\ [][NextCalls]_vars


(***************************************************************************)
(* SpecRetry: one call of pool_fetchers.fetch_with_retry, one step per     *)
(* turn of its loop.  The request of a turn is answered 200 with a body,   *)
(* 429, another status (500), or ends in an exception (0): a timeout, a    *)
(* client error, or any other error raised inside the try block.  call     *)
(* holds the arguments and the answers the server will give; ret holds the *)
(* position in the loop, the requests issued and the seconds slept after   *)
(* each failed attempt.                                                    *)
(***************************************************************************)
RetryAnswers == {200, 429, 500, 0}

RetryCalls ==
    {[fn |-> "fetch_with_retry", responses |-> r, max_retries |-> n] :
        r \in [1..MAX_RETRIES -> RetryAnswers], n \in 1..MAX_RETRIES}

\* a wait of initial_delay whatever the attempt and the answer
RetryWaitFlat(attempt, status) == INITIAL_RETRY_DELAY

\* lines 136 and 143-154: the sleep after a failed attempt
RetryWait(attempt, status) ==
    INITIAL_RETRY_DELAY * Pow2(attempt) + (IF status = 429 THEN 1 ELSE 0)

InitRetry ==
    /\ now = 0
    /\ recent_opportunities = EmptyMap
    /\ recent_tokens = EmptyMap
    /\ sent_opportunities = EmptyMap
    /\ sent_tokens = EmptyMap
    /\ last_call = None
    /\ pair_in = None
    /\ pair_out = None
    /\ ScanIdle
    /\ FetchIdle
    /\ EvalIdle
    /\ SmartIdle
    /\ BaseIdle
    /\ NotifyIdle
    /\ CacheIdle
    /\ call \in RetryCalls
    /\ ret = [pc |-> "request", attempt |-> 0, requests |-> 0, sleeps |-> <<>>,
              result |-> None]

\* lines 129-154: one turn of the loop
RetryAttempt ==
    /\ ret.pc = "request"
    /\ ret.attempt < call.max_retries
    /\ LET status == call.responses[ret.attempt + 1]
           last == ret.attempt = call.max_retries - 1
           wait == IF status = 429 \/ ~last THEN RetryWait(ret.attempt, status) ELSE 0
       IN  ret' = IF status = 200
                  THEN [ret EXCEPT !.pc = "done", !.requests = @ + 1,
                                   !.result = [data |-> TRUE]]
                  ELSE [ret EXCEPT !.attempt = @ + 1, !.requests = @ + 1,
                                   !.sleeps = Append(@, wait)]
    /\ UNCHANGED <<now, antiVars, pairVars, scanVars, fetchVars, evalVars, smartVars, notifyVars, baseVars, cacheVars, call>>

\* line 158: the loop is over
RetryExhausted ==
    /\ ret.pc = "request"
    /\ ret.attempt = call.max_retries
    /\ ret' = [ret EXCEPT !.pc = "done", !.result = None]
    /\ UNCHANGED <<now, antiVars, pairVars, scanVars, fetchVars, evalVars, smartVars, notifyVars, baseVars, cacheVars, call>>

NextRetry ==
    \/ RetryAttempt
    \/ RetryExhausted

SpecRetry == InitRetry /\ [][NextRetry]_vars

\* every request ends, by its answer or by its timeout
SpecRetryFair == SpecRetry /\ WF_vars(RetryAttempt) /\ WF_vars(RetryExhausted)

\* the attempts (from 1) answered 200 among the first max_retries
RetryOk == {a \in 1..call.max_retries : call.responses[a] = 200}

RetrySafe ==
    /\ ret.requests <= call.max_retries
    /\ ret.pc = "done" =>
           IF RetryOk # {}
           THEN /\ ret.result = [data |-> TRUE]
                /\ ret.requests \in RetryOk
                /\ \A a \in RetryOk : ret.requests <= a
           ELSE /\ ret.result = None
                /\ ret.requests = call.max_retries
    /\ \A k \in 0..(Len(ret.sleeps) - 1) :
           k + 1 < call.max_retries =>
               ret.sleeps[k + 1] =
                   IF call.responses[k + 1] = 429
                   THEN INITIAL_RETRY_DELAY * Pow2(k) + 1
                   ELSE INITIAL_RETRY_DELAY * Pow2(k)

SmartMaxClock == 75
SmartElapsed == {15, 30}
SmartKeys == {"base_kyber_TOK2", "base_aerodrome_TOK2"}
SmartData == {[pools |-> 1], [pools |-> 2]}
SmartLiquidity == {40000, 50000, 499999, 500000}

\* one TTL for every liquidity
FlatTtl(liquidity_usd) == 30

\* pool_fetchers._get_dynamic_ttl
get_dynamic_ttl(liquidity_usd) ==
    IF liquidity_usd >= 500000 THEN 15
    ELSE IF liquidity_usd >= 50000 THEN 30
    ELSE 60

\* del d[key]
Without(d, key) == [k \in DOMAIN d \ {key} |-> d[k]]

InitSmart ==
    /\ now = 0
    /\ recent_opportunities = EmptyMap
    /\ recent_tokens = EmptyMap
    /\ sent_opportunities = EmptyMap
    /\ sent_tokens = EmptyMap
    /\ last_call = None
    /\ pair_in = None
    /\ pair_out = None
    /\ ScanIdle
    /\ FetchIdle
    /\ EvalIdle
    /\ SmartIdle
    /\ BaseIdle
    /\ NotifyIdle
    /\ CacheIdle
    /\ CallIdle

SmartTick ==
    /\ \E d \in SmartElapsed :
          /\ now + d <= SmartMaxClock
          /\ now' = now + d
    /\ UNCHANGED <<antiVars, pairVars, scanVars, fetchVars, evalVars, smartVars, notifyVars, baseVars,
                   cacheVars, callVars>>

\* pool_fetchers._set_cached_data
SmartPut ==
    /\ \E key \in SmartKeys, data \in SmartData, avg_liquidity \in SmartLiquidity :
          /\ smart_cache' = Put(smart_cache, key,
                                [data |-> data, timestamp |-> now,
                                 ttl |-> get_dynamic_ttl(avg_liquidity)])
          /\ smart_puts' = Put(smart_puts, key,
                               [data |-> data, at |-> now, avg_liquidity |-> avg_liquidity])
    /\ UNCHANGED <<now, antiVars, pairVars, scanVars, fetchVars, evalVars, last_get, notifyVars, baseVars,
                   cacheVars, callVars>>

\* pool_fetchers._get_cached_data
SmartGet ==
    /\ \E key \in SmartKeys :
          LET hit == /\ key \in DOMAIN smart_cache
                     /\ now - smart_cache[key].timestamp < smart_cache[key].ttl
          IN  /\ smart_cache' = IF key \in DOMAIN smart_cache /\ ~hit
                                THEN Without(smart_cache, key)
                                ELSE smart_cache
              /\ last_get' = [key |-> key, at |-> now,
                              result |-> IF hit THEN smart_cache[key].data ELSE None,
                              put |-> IF key \in DOMAIN smart_puts THEN smart_puts[key]
                                      ELSE None,
                              kept |-> key \in DOMAIN smart_cache']
    /\ UNCHANGED <<now, antiVars, pairVars, scanVars, fetchVars, evalVars, smart_puts, notifyVars, baseVars,
                   cacheVars, callVars>>

NextSmart ==
    \/ SmartTick
    \/ SmartPut
    \/ SmartGet

SpecSmart == InitSmart /\ [][NextSmart]_vars

====
